---------------------------- MODULE Spec2Model ----------------------------
(***************************************************************************)
(* Verification model of the exam generator (franlpz1969/creador_examenes). *)
(*                                                                         *)
(*   DistSpec   the Distribution Calculator                                *)
(*              (services/geminiService.ts, getQuestionCountsPerDocument)  *)
(*              applied to corpora built by services/pdfService.ts, to     *)
(*              legacy corpora and to malformed text.                      *)
(*   SegSpec    the Span Segmenter (ExamClozeMode, getParsedContent)       *)
(*              applied to a card's text and hidden words.                 *)
(*   TestSpec   the exam session of test mode (ExamTestMode): selecting    *)
(*              options, submitting, advancing, and the countdown.         *)
(*   OpenSpec   the exam session of open mode (ExamOpenMode): typing,      *)
(*              checking, the evaluation request, and the countdown.       *)
(*   ExamSpec   an exam session of either mode.                            *)
(*   LinkSpec   createPDFLink of the three exam components applied to a    *)
(*              source attribution and the uploaded files.                 *)
(*   AppSpec    App and FileUpload: upload, settings, generation, exam,    *)
(*              restart, with the exam component of the EXAM step.         *)
(* Each specification moves the variables of its own component and leaves  *)
(* the others at rest.                                                     *)
(***************************************************************************)
EXTENDS Integers, Sequences, FiniteSets, TLC

VARIABLES
    origin,          \* how the corpus was produced: "pdf", "legacy", "mixed", "raw"
    sourceDocs,      \* the documents the corpus was produced from
    pdfText,         \* the corpus (AppState.pdfText), a sequence of chunks
    totalQuestions,  \* Settings' questionCount
    distribution,    \* Settings' memoised getQuestionCountsPerDocument result
    distPc           \* "idle" before the first render, "done" after it

VARIABLES
    currentCard,     \* ExamClozeMode: the card shown, [fullText, hiddenWords]
    parts,           \* the segments getParsedContent returned for it
    segPc            \* "idle" before the card is rendered, "done" after it

VARIABLES
    questions,       \* ExamTestMode: the items of the exam (props.questions)
    settings,        \* props.settings
    currentIndex,    \* index of the item shown, from 0; questions.length when over
    selectedOptions, \* the option indices picked, in the order picked
    isAnswered,      \* the item shown has been submitted
    score,           \* the score, counted in half points
    results,         \* [correct, wrong]
    timeLeft,        \* seconds left on the countdown
    summary          \* the outcome records, one appended per answer or timeout

VARIABLES
    openQuestions,   \* ExamOpenMode: the items of the exam (props.questions)
    openSettings,    \* props.settings
    openIndex,       \* currentIndex of ExamOpenMode
    userAnswer,      \* the text typed for the item shown
    evaluation,      \* Null, or the [score, feedback] shown for the item
    showModelAnswer, \* the item was checked without an answer
    isEvaluating,    \* an evaluation request is under way
    totalScore,      \* the number of answers evaluated as correct
    openTimeLeft,    \* timeLeft of ExamOpenMode
    openSummary,     \* summary of ExamOpenMode
    evalRequests     \* the evaluation requests sent so far

VARIABLES
    uploadedFiles,   \* AppState.uploadedFiles: Null, or the keys of the Map in order
    sourceFile,      \* the source attribution of the item shown
    link,            \* what createPDFLink returned for it
    linkMode         \* the exam mode that shows the item

VARIABLES
    step,               \* AppState.step
    appSettings,        \* AppState.settings
    testQuestions,      \* AppState.testQuestions
    clozeCards,         \* AppState.clozeCards
    stateOpenQuestions, \* AppState.openQuestions
    backgroundImage,    \* Null, or the generated background
    apiKey,             \* process.env.API_KEY is set
    generations,        \* the generation requests awaiting their response
    alert               \* the alert the last handler of App or FileUpload showed

VARIABLES
    cards,           \* ExamClozeMode: the cards of the review (props.cards)
    clozeIndex,      \* currentIndex of ExamClozeMode
    isRevealed,      \* the hidden words of the card are shown
    cardEffect       \* the render is committed, the effect on currentCard is due

VARIABLES
    fileSelection    \* FileUpload: the files selected (the state files)

distVars == <<origin, sourceDocs, pdfText, totalQuestions, distribution, distPc>>
segVars == <<currentCard, parts, segPc>>

testVars == <<questions, settings, currentIndex, selectedOptions, isAnswered,
              score, results, timeLeft, summary>>

openVars == <<openQuestions, openSettings, openIndex, userAnswer, evaluation,
              showModelAnswer, isEvaluating, totalScore, openTimeLeft, openSummary,
              evalRequests>>

linkVars == <<uploadedFiles, sourceFile, link, linkMode>>

appVars == <<step, appSettings, testQuestions, clozeCards, stateOpenQuestions,
             backgroundImage, apiKey, generations, alert>>

clozeVars == <<cards, clozeIndex, isRevealed, cardEffect>>

uploadVars == <<fileSelection>>

vars == <<distVars, segVars, testVars, openVars, linkVars, appVars, clozeVars,
          uploadVars>>

---------------------------------------------------------------------------
(* Bounds of the model.                                                    *)

MaxDocs == 4        \* documents per corpus
MaxPages == 3       \* pages per document in corpora of up to MaxDocs documents
MaxWidePages == 15  \* pages per document in two-document corpora
MaxItems == 11      \* requested number of questions
MaxBody == 2        \* body length of a legacy document
MaxChunks == 3      \* chunks of a malformed corpus
PageChars == 2      \* characters of text on a page
MaxTextLen == 3     \* characters of a card's fullText
MaxTerms == 2       \* entries of a card's hiddenWords
MaxTermChars == 2   \* characters of all hidden words of a card together
MaxQuestions == 2   \* items of a test exam
MaxTime == 2        \* seconds of the longest time limit per item
MaxLongExam == 10   \* items of a long exam of one-answer items
MaxLongOpenExam == 5 \* items of a long exam of open questions

---------------------------------------------------------------------------
(* JavaScript numbers.  The counts are integers or NaN; the proportional   *)
(* share is computed in IEEE-754 binary64, modelled exactly: a positive    *)
(* double is 1.f * 2^e with the 52 fraction bits f held as four 13-bit     *)
(* limbs, most significant first.                                          *)

LimbBits == 13
Radix == 2 ^ LimbBits

\* NaN is encoded as an integer no count of the model can take.
NaN == 0 - (2 ^ 30)

JsAdd(a, b) == IF a = NaN \/ b = NaN THEN NaN ELSE a + b
JsSub(a, b) == IF a = NaN \/ b = NaN THEN NaN ELSE a - b

FloatZero == [kind |-> "zero", e |-> 0, f |-> <<0, 0, 0, 0>>]
FloatNaN == [kind |-> "nan", e |-> 0, f |-> <<0, 0, 0, 0>>]

RECURSIVE Log2Ratio(_, _)
\* the e with 2^e <= a / b < 2^(e+1), for a, b > 0
Log2Ratio(a, b) ==
    IF a < b THEN Log2Ratio(2 * a, b) - 1
    ELSE IF a >= 2 * b THEN Log2Ratio(a, 2 * b) + 1
    ELSE 0

\* The double 1.f * 2^e, its last place incremented when roundUp (the carry
\* may run into the exponent).
RoundToNearestEven(e, f, roundUp) ==
    LET c4 == IF roundUp THEN f[4] + 1 ELSE f[4]
        c3 == f[3] + (c4 \div Radix)
        c2 == f[2] + (c3 \div Radix)
        c1 == f[1] + (c2 \div Radix)
    IN [kind |-> "num",
        e |-> e + (c1 \div Radix),
        f |-> <<c1 % Radix, c2 % Radix, c3 % Radix, c4 % Radix>>]

\* a / b of two integers 0 <= a <= b < 2^17: long division to 53 significant
\* bits, rounded to nearest, ties to even.  0 / 0 is NaN.
FloatDiv(a, b) ==
    IF b = 0 THEN FloatNaN
    ELSE IF a = 0 THEN FloatZero
    ELSE LET e == Log2Ratio(a, b)
             num == IF e < 0 THEN a * (2 ^ (0 - e)) ELSE a
             den == IF e > 0 THEN b * (2 ^ e) ELSE b
             r0 == num - den
             r1 == (r0 * Radix) % den
             r2 == (r1 * Radix) % den
             r3 == (r2 * Radix) % den
             r4 == (r3 * Radix) % den
             f == << (r0 * Radix) \div den, (r1 * Radix) \div den,
                     (r2 * Radix) \div den, (r3 * Radix) \div den >>
         IN RoundToNearestEven(e, f,
                2 * r4 > den \/ (2 * r4 = den /\ f[4] % 2 = 1))

\* x * t of a double x and an integer 0 <= t < 2^13: the exact product,
\* renormalised to 53 significant bits, rounded to nearest, ties to even.
FloatMul(x, t) ==
    IF x.kind = "nan" THEN FloatNaN
    ELSE IF x.kind = "zero" \/ t = 0 THEN FloatZero
    ELSE LET v4 == x.f[4] * t
             v3 == (x.f[3] * t) + (v4 \div Radix)
             v2 == (x.f[2] * t) + (v3 \div Radix)
             v1 == (x.f[1] * t) + (v2 \div Radix)
             top == t + (v1 \div Radix)
             s == Log2Ratio(top, 1)
             D == 2 ^ s
             U == Radix \div D
             o1 == v1 % Radix
             o2 == v2 % Radix
             o3 == v3 % Radix
             o4 == v4 % Radix
             f == << ((top - D) * U) + (o1 \div D), ((o1 % D) * U) + (o2 \div D),
                     ((o2 % D) * U) + (o3 \div D), ((o3 % D) * U) + (o4 \div D) >>
             tail == o4 % D
         IN RoundToNearestEven(x.e + s, f,
                2 * tail > D \/ (2 * tail = D /\ s > 0 /\ f[4] % 2 = 1))

\* Math.round of a double 0 <= x < 2^13: the nearest integer, halves up.
MathRound(x) ==
    IF x.kind = "nan" THEN NaN
    ELSE IF x.kind = "zero" \/ x.e < -1 THEN 0
    ELSE IF x.e = -1 THEN 1
    ELSE (2 ^ x.e) + (x.f[1] \div (2 ^ (LimbBits - x.e)))
         + ((x.f[1] \div (2 ^ (LimbBits - 1 - x.e))) % 2)

---------------------------------------------------------------------------
(* The corpus.  A text is the sequence of the chunks its "\n" separate: a  *)
(* start marker with a page count, a legacy start marker without one, an   *)
(* end marker, or len characters of any other text.  A file name n stands  *)
(* for "<n>.pdf".                                                          *)

RECURSIVE Digits(_)
Digits(n) == IF n < 10 THEN 1 ELSE 1 + Digits(n \div 10)

NameLen(n) == Digits(n) + 4

\* "--- Inicio del documento: <name> | Páginas: <pages> ---"
StartP(n, p) ==
    [kind |-> "startP", name |-> n, pages |-> p,
     len |-> 26 + NameLen(n) + 12 + Digits(p) + 4]
\* "--- Inicio del documento: <name> ---"
StartL(n) == [kind |-> "startL", name |-> n, pages |-> 0, len |-> 26 + NameLen(n) + 4]
\* "--- Fin del documento ---"
EndMarker == [kind |-> "end", name |-> 0, pages |-> 0, len |-> 25]
Text(k) == [kind |-> "text", name |-> 0, pages |-> 0, len |-> k]

SeqsUpTo(S, n) == UNION {[1..k -> S] : k \in 0..n}

RECURSIVE SumSeq(_)
SumSeq(s) == IF s = <<>> THEN 0 ELSE Head(s) + SumSeq(Tail(s))

\* "--- [Página <i>] ---\n<pageText>" for every page, joined by "\n"
FileTextLen(file) ==
    SumSeq([i \in 1..file.numPages |-> 12 + Digits(i) + 5 + 1 + file.pageLen])
    + (file.numPages - 1)

RECURSIVE extractTextFromPDFsFrom(_, _)
extractTextFromPDFsFrom(files, i) ==
    IF i > Len(files) THEN <<Text(0)>>
    ELSE << StartP(files[i].name, files[i].numPages), Text(FileTextLen(files[i])),
            Text(0), EndMarker, Text(0) >>
         \o extractTextFromPDFsFrom(files, i + 1)

extractTextFromPDFs(files) == extractTextFromPDFsFrom(files, 1)

RECURSIVE LegacyTextFrom(_, _)
\* a corpus of the older format, without page annotations
LegacyTextFrom(docs, i) ==
    IF i > Len(docs) THEN <<Text(0)>>
    ELSE << StartL(docs[i].name), Text(docs[i].length), EndMarker, Text(0) >>
         \o LegacyTextFrom(docs, i + 1)

LegacyText(docs) == LegacyTextFrom(docs, 1)

---------------------------------------------------------------------------
(* getQuestionCountsPerDocument                                            *)

\* docRegex matches at a start marker with a page count; oldDocRegex at any
\* start marker (its name group takes the page annotation along).
IsStart(chunk, legacy) ==
    IF legacy THEN chunk.kind \in {"startP", "startL"} ELSE chunk.kind = "startP"

\* The body group ([\s\S]*?) is what lies between the "\n" after the start
\* marker and the first later "\n--- Fin del documento ---": the end marker
\* sits at least two chunks after the start marker.
EndsAfter(text, i) == {j \in (i + 2)..Len(text) : text[j].kind = "end"}

Min(S) == CHOOSE x \in S : \A y \in S : x <= y

BodyLength(text, i, j) ==
    SumSeq([k \in 1..(j - i - 1) |-> text[i + k].len]) + (j - i - 2)

RECURSIVE RegexExecAll(_, _, _)
\* the successive matches of regex.exec from chunk `from` on
RegexExecAll(text, from, legacy) ==
    LET starts == {i \in from..Len(text) :
                      IsStart(text[i], legacy) /\ EndsAfter(text, i) # {}}
    IN IF starts = {} THEN <<>>
       ELSE LET i == Min(starts)
                j == Min(EndsAfter(text, i))
            IN << [name |-> text[i].name,
                   weight |-> IF legacy THEN BodyLength(text, i, j)
                                        ELSE text[i].pages] >>
               \o RegexExecAll(text, j + 1, legacy)

TotalWeight(docs) == SumSeq([i \in 1..Len(docs) |-> docs[i].weight])

\* a variant that lets a single document through
TooFewDocumentsNone(docs) == Len(docs) < 1

\* docs.length <= 1
TooFewDocuments(docs) == Len(docs) <= 1

\* Math.round((doc.pages / totalPages) * totalQuestions)
ShareCount(weight, total, requested) ==
    MathRound(FloatMul(FloatDiv(weight, total), requested))

\* a variant that forces the minimum only with questions to spare
ForcedCountStrict(count, requested, nDocs) ==
    IF count = 0 /\ requested > nDocs THEN 1 ELSE count

\* if (count === 0 && totalQuestions >= docs.length) count = 1
ForcedCount(count, requested, nDocs) ==
    IF count = 0 /\ requested >= nDocs THEN 1 ELSE count

\* a variant that never hands out a negative remainder
RemainderCountClamped(requested, distributedCount) ==
    IF JsSub(requested, distributedCount) < 0 THEN 0
    ELSE JsSub(requested, distributedCount)

\* count = totalQuestions - distributedCount
RemainderCount(requested, distributedCount) == JsSub(requested, distributedCount)

RECURSIVE DistributeFrom(_, _, _, _, _)
\* docs.forEach((doc, index) => ...), from `index` on
DistributeFrom(docs, total, requested, index, distributedCount) ==
    IF index > Len(docs) THEN <<>>
    ELSE LET count ==
                 IF index = Len(docs)
                 THEN RemainderCount(requested, distributedCount)
                 ELSE ForcedCount(ShareCount(docs[index].weight, total, requested),
                                  requested, Len(docs))
         IN << [docName |-> docs[index].name, count |-> count] >>
            \o DistributeFrom(docs, total, requested, index + 1,
                              JsAdd(distributedCount, count))

getQuestionCountsPerDocument(text, requested) ==
    LET docs == RegexExecAll(text, 1, FALSE)
    IN IF Len(docs) = 0
       THEN LET oldDocs == RegexExecAll(text, 1, TRUE)
            IN IF TooFewDocuments(oldDocs) THEN <<>>
               ELSE DistributeFrom(oldDocs, TotalWeight(oldDocs), requested, 1, 0)
       ELSE IF TooFewDocuments(docs) THEN <<>>
       ELSE DistributeFrom(docs, TotalWeight(docs), requested, 1, 0)

---------------------------------------------------------------------------
(* The prompt of generateTestQuestions, generateClozeCards and              *)
(* generateOpenQuestions: the distribution instruction and the context.    *)

\* text.slice(0, 30000)
PromptChars == 30000

\* the items calculateQuestionDistribution writes into the instruction, one
\* line for each
calculateQuestionDistribution(text, requested) ==
    getQuestionCountsPerDocument(text, requested)

RECURSIVE MatchStarts(_, _, _)
\* the chunks at which the successive matches of regex.exec begin
MatchStarts(text, from, legacy) ==
    LET starts == {i \in from..Len(text) :
                      IsStart(text[i], legacy) /\ EndsAfter(text, i) # {}}
    IN IF starts = {} THEN <<>>
       ELSE <<Min(starts)>> \o MatchStarts(text, Min(EndsAfter(text, Min(starts))) + 1, legacy)

\* the start markers of the documents the distribution is made over
DocumentStarts(text) ==
    IF Len(RegexExecAll(text, 1, FALSE)) = 0
    THEN MatchStarts(text, 1, TRUE) ELSE MatchStarts(text, 1, FALSE)

\* the index in the text of the character after chunk k, the chunks being
\* lines of the text
ChunkEnd(text, k) == SumSeq([i \in 1..k |-> text[i].len]) + (k - 1)

\* the chunks text.slice(0, end) holds whole
slice(text, end) == {k \in 1..Len(text) : ChunkEnd(text, k) <= end}

\* the chunks of the corpus the prompt holds whole
PromptContext(text) == slice(text, PromptChars)

---------------------------------------------------------------------------
(* Strings of the cloze cards: sequences of characters.                    *)

\* A character is written by itself or, outside ASCII, by its name: "micro" is
\* the micro sign U+00B5, "mu" the Greek small letter mu U+03BC and "MU" the
\* Greek capital letter mu U+039C.
LatinChars == {"a", "A", " ", "."}
GreekChars == {"micro", "mu"}

\* String.prototype.toLowerCase, one character
LowerChar(c) ==
    CASE c = "A" -> "a"
      [] c = "MU" -> "mu"
      [] OTHER -> c

\* String.prototype.toUpperCase, one character; the micro sign and the small
\* mu share their capital
UpperChar(c) ==
    CASE c = "a" -> "A"
      [] c = "micro" -> "MU"
      [] c = "mu" -> "MU"
      [] OTHER -> c

toLowerCase(str) == [i \in 1..Len(str) |-> LowerChar(str[i])]

WhiteSpace == {" "}

\* String.prototype.trim
trim(str) ==
    LET inked == {i \in 1..Len(str) : str[i] \notin WhiteSpace}
    IN IF inked = {} THEN <<>>
       ELSE SubSeq(str, CHOOSE i \in inked : \A j \in inked : i <= j,
                        CHOOSE i \in inked : \A j \in inked : i >= j)

\* the characters of the class [.*+?^${}()|[\]\\]
MetaChars == {".", "*", "+", "?", "^", "$", "{", "}", "(", ")", "|", "[", "]", "\\"}

RECURSIVE escapeRegExp(_)
\* string.replace(/[.*+?^${}()|[\]\\]/g, '\\$&')
escapeRegExp(str) ==
    IF str = <<>> THEN <<>>
    ELSE (IF Head(str) \in MetaChars THEN <<"\\", Head(str)>> ELSE <<Head(str)>>)
         \o escapeRegExp(Tail(str))

RECURSIVE RegExpAtoms(_)
\* new RegExp(`(${safeWord})`, 'gi'): the atoms of the group, one per
\* character to match; an escaped character stands for itself, a bare "."
\* for any character but a line break
RegExpAtoms(src) ==
    IF src = <<>> THEN <<>>
    ELSE IF Head(src) = "\\" /\ Len(src) >= 2
         THEN <<[any |-> FALSE, ch |-> src[2]]>> \o RegExpAtoms(Tail(Tail(src)))
    ELSE IF Head(src) = "."
         THEN <<[any |-> TRUE, ch |-> "."]>> \o RegExpAtoms(Tail(src))
    ELSE <<[any |-> FALSE, ch |-> Head(src)]>> \o RegExpAtoms(Tail(src))

\* the 'i' flag of a RegExp compares canonicalised characters: each character
\* is replaced by its upper case when that is one character (and not an ASCII
\* one for a character outside ASCII)
Canonicalize(c) == UpperChar(c)

AtomMatches(atom, c) ==
    IF atom.any THEN c # "\n" ELSE Canonicalize(atom.ch) = Canonicalize(c)

\* the pattern matches the characters after offset q
MatchesAt(str, q, atoms) ==
    /\ q + Len(atoms) <= Len(str)
    /\ \A k \in 1..Len(atoms) : AtomMatches(atoms[k], str[q + k])

RECURSIVE SplitFromNoCapture(_, _, _, _)
\* a variant for a pattern without the capturing group
SplitFromNoCapture(str, atoms, p, q) ==
    IF q >= Len(str) THEN <<SubSeq(str, p + 1, Len(str))>>
    ELSE IF ~MatchesAt(str, q, atoms) \/ q + Len(atoms) = p
         THEN SplitFromNoCapture(str, atoms, p, q + 1)
    ELSE <<SubSeq(str, p + 1, q)>>
         \o SplitFromNoCapture(str, atoms, q + Len(atoms), q + Len(atoms))

RECURSIVE SplitFrom(_, _, _, _)
\* String.prototype.split(regex) from the last split offset p and the search
\* offset q on: the text before each match, then the match (the captured
\* group); a match that ends where the last split ended is passed over
SplitFrom(str, atoms, p, q) ==
    IF q >= Len(str) THEN <<SubSeq(str, p + 1, Len(str))>>
    ELSE IF ~MatchesAt(str, q, atoms) \/ q + Len(atoms) = p
         THEN SplitFrom(str, atoms, p, q + 1)
    ELSE <<SubSeq(str, p + 1, q), SubSeq(str, q + 1, q + Len(atoms))>>
         \o SplitFrom(str, atoms, q + Len(atoms), q + Len(atoms))

split(str, atoms) ==
    IF str = <<>> THEN (IF MatchesAt(str, 0, atoms) THEN <<>> ELSE <<str>>)
    ELSE SplitFrom(str, atoms, 0, 0)

---------------------------------------------------------------------------
(* getParsedContent                                                        *)

Undefined == <<"undefined">>

VisiblePart(s) == [text |-> s, hidden |-> FALSE, word |-> Undefined]

\* a variant that keeps the requested term in `word`
HiddenPartOfTerm(s, word) == [text |-> s, hidden |-> TRUE, word |-> word]

\* { text: s, hidden: true, word: s }
HiddenPart(s, word) == [text |-> s, hidden |-> TRUE, word |-> s]

RECURSIVE PartsOfSplit(_, _)
\* split.forEach(s => ...)
PartsOfSplit(pieces, word) ==
    IF pieces = <<>> THEN <<>>
    ELSE LET s == Head(pieces)
         IN (IF toLowerCase(s) = toLowerCase(trim(word)) THEN <<HiddenPart(s, word)>>
             ELSE IF s # <<>> THEN <<VisiblePart(s)>>
             ELSE <<>>)
            \o PartsOfSplit(Tail(pieces), word)

RECURSIVE PartsForWordRescanning(_, _)
\* a variant that splits the hidden segments too
PartsForWordRescanning(oldParts, word) ==
    IF oldParts = <<>> THEN <<>>
    ELSE LET part == Head(oldParts)
         IN PartsOfSplit(
                split(part.text, RegExpAtoms(escapeRegExp(trim(word)))), word)
            \o PartsForWordRescanning(Tail(oldParts), word)

RECURSIVE PartsForWord(_, _)
\* parts.forEach(part => ...) for one hidden word
PartsForWord(oldParts, word) ==
    IF oldParts = <<>> THEN <<>>
    ELSE LET part == Head(oldParts)
         IN (IF part.hidden THEN <<part>>
             ELSE PartsOfSplit(
                      split(part.text, RegExpAtoms(escapeRegExp(trim(word)))), word))
            \o PartsForWord(Tail(oldParts), word)

RECURSIVE PartsAfter(_, _, _)
\* currentCard.hiddenWords.forEach(word => ...), from the k-th word on
PartsAfter(oldParts, hiddenWords, k) ==
    IF k > Len(hiddenWords) THEN oldParts
    ELSE PartsAfter(
             IF hiddenWords[k] = <<>> THEN oldParts
             ELSE PartsForWord(oldParts, hiddenWords[k]),
             hiddenWords, k + 1)

getParsedContent(card) ==
    PartsAfter(<<VisiblePart(card.fullText)>>, card.hiddenWords, 1)

---------------------------------------------------------------------------
(* The inputs of the Span Segmenter.                                       *)

Strings(chars, n) == UNION {[1..k -> chars] : k \in 0..n}

RECURSIVE TotalLen(_)
TotalLen(words) == IF words = <<>> THEN 0 ELSE Len(Head(words)) + TotalLen(Tail(words))

HiddenWordLists(chars) ==
    {w \in SeqsUpTo(Strings(chars, MaxTermChars), MaxTerms) : TotalLen(w) <= MaxTermChars}

CardsOver(chars) ==
    [fullText : Strings(chars, MaxTextLen), hiddenWords : HiddenWordLists(chars)]

\* a one-character word followed by a two-character one, which may lie
\* across what the first one hid
OverlapWordLists ==
    {<<first, second>> : first \in [1..1 -> {"a", "."}],
                         second \in [1..2 -> {"a", "A", "."}]}

Cards ==
    CardsOver(LatinChars) \cup CardsOver(GreekChars)
    \cup [fullText : Strings(LatinChars, MaxTextLen), hiddenWords : OverlapWordLists]

SegInit ==
    /\ currentCard \in Cards
    /\ parts = <<>>
    /\ segPc = "idle"

\* the component is not in use
SegIdle ==
    /\ currentCard = [fullText |-> <<>>, hiddenWords |-> <<>>]
    /\ parts = <<>>
    /\ segPc = "off"

\* ExamClozeMode renders the current card
RenderCard ==
    /\ segPc = "idle"
    /\ parts' = getParsedContent(currentCard)
    /\ segPc' = "done"
    /\ UNCHANGED currentCard
    /\ UNCHANGED <<distVars, testVars, openVars, linkVars, appVars, clozeVars, uploadVars>>

SegNext == RenderCard

---------------------------------------------------------------------------
(* The inputs of the Distribution Calculator.                              *)

FilesOf(pages) ==
    [i \in 1..Len(pages) |-> [name |-> i, numPages |-> pages[i], pageLen |-> PageChars]]

\* the uploads: up to MaxDocs small files, or two large ones
FileLists ==
    {FilesOf(p) : p \in SeqsUpTo(1..MaxPages, MaxDocs)}
    \cup {FilesOf(p) : p \in [1..2 -> 1..MaxWidePages]}

LegacyLists ==
    {[i \in 1..Len(b) |-> [name |-> i, length |-> b[i]]] :
        b \in SeqsUpTo(0..MaxBody, MaxDocs - 1)}

\* two uploads, the first of them long: half the context of a prompt, or
\* all of it
LongFileLists ==
    {<< [name |-> 1, numPages |-> 1, pageLen |-> chars],
        [name |-> 2, numPages |-> 1, pageLen |-> PageChars] >> :
        chars \in {PromptChars \div 2, PromptChars}}

RawChunks == {StartP(1, 1), StartL(1), EndMarker, Text(0), Text(PageChars)}

RawTexts == SeqsUpTo(RawChunks, MaxChunks)

DistInit ==
    /\ \/ \E files \in FileLists \cup LongFileLists :
            /\ origin = "pdf"
            /\ sourceDocs = files
            /\ pdfText = extractTextFromPDFs(files)
       \/ \E docs \in LegacyLists :
            /\ origin = "legacy"
            /\ sourceDocs = docs
            /\ pdfText = LegacyText(docs)
       \/ \E docs \in LegacyLists :
            /\ Len(docs) >= 2
            /\ origin = "mixed"
            /\ sourceDocs = docs
            /\ pdfText = extractTextFromPDFs(FilesOf(<<1>>)) \o LegacyText(docs)
       \/ \E text \in RawTexts :
            /\ origin = "raw"
            /\ sourceDocs = <<>>
            /\ pdfText = text
    /\ totalQuestions \in 0..MaxItems
    /\ distribution = <<>>
    /\ distPc = "idle"

\* the component is not in use
DistIdle ==
    /\ origin = "raw"
    /\ sourceDocs = <<>>
    /\ pdfText = <<>>
    /\ totalQuestions = 0
    /\ distribution = <<>>
    /\ distPc = "off"

\* Settings is rendered: useMemo computes the distribution
RenderSettings ==
    /\ distPc = "idle"
    /\ distribution' = getQuestionCountsPerDocument(pdfText, totalQuestions)
    /\ distPc' = "done"
    /\ UNCHANGED <<origin, sourceDocs, pdfText, totalQuestions>>
    /\ UNCHANGED <<segVars, testVars, openVars, linkVars, appVars, clozeVars, uploadVars>>

\* the question slider (1..100) moves: useMemo recomputes the distribution
SetQuestionCount ==
    /\ distPc = "done"
    /\ \E q \in 1..MaxItems :
          /\ q # totalQuestions
          /\ totalQuestions' = q
          /\ distribution' = getQuestionCountsPerDocument(pdfText, q)
    /\ UNCHANGED <<origin, sourceDocs, pdfText, distPc>>
    /\ UNCHANGED <<segVars, testVars, openVars, linkVars, appVars, clozeVars, uploadVars>>

DistNext == RenderSettings \/ SetQuestionCount


---------------------------------------------------------------------------
(* ExamTestMode                                                            *)

\* the fewest options the settings offer for an item, indexed from 0
optionsCount == 2

Options == 0..(optionsCount - 1)

\* the correctIndices arrays of the items: one index, several, none, in any
\* order, with a repeated index
CorrectIndexLists == {<<0>>, <<0, 1>>, <<1, 0>>, <<1, 1>>, <<>>}

QuestionLists == SeqsUpTo([correctIndices : CorrectIndexLists], MaxQuestions)

SettingsRecords ==
    [negativeMarking : BOOLEAN, allowMultipleCorrect : BOOLEAN, timeLimit : {0, MaxTime}]

\* indices.map(i => currentQuestion.options[i]): the text of option i is
\* its number written out
OptionTexts(indices) == [k \in 1..Len(indices) |-> ToString(indices[k])]

\* new Set(array)
SetOf(array) == {array[i] : i \in 1..Len(array)}

isFinished == currentIndex >= Len(questions)

currentQuestion == questions[currentIndex + 1]

\* a variant that records a timeout as an empty selection
TimedOutAsNothing == <<>>

\* userSelected: ["Tiempo agotado"]
TimedOut == <<"Tiempo agotado">>

\* a variant that only looks for the correct indices among the selected ones
IsCorrectIfIncluded(correctIndices, selected) ==
    \A x \in SetOf(correctIndices) : x \in SetOf(selected)

\* correctSet.size === selectedSet.size && [...correctSet].every(x => selectedSet.has(x))
IsCorrect(correctIndices, selected) ==
    /\ Cardinality(SetOf(correctIndices)) = Cardinality(SetOf(selected))
    /\ \A x \in SetOf(correctIndices) : x \in SetOf(selected)

\* the points of an answer, in half points: 1, 0 or -0.5
Points(correct, negativeMarking) ==
    IF correct THEN 2 ELSE IF negativeMarking THEN 0 - 1 ELSE 0

\* a variant of the effect that lets the remaining time carry over
TimerEffectCarryingOver(index, answered, left) ==
    IF settings.timeLimit = 0 \/ answered \/ index >= Len(questions)
    THEN left ELSE IF left > 0 THEN left ELSE settings.timeLimit

\* the Timer Logic effect, run after a render in which the item shown or
\* isAnswered changed: it restarts the countdown unless there is none to run
TimerEffect(index, answered, left) ==
    IF settings.timeLimit = 0 \/ answered \/ index >= Len(questions)
    THEN left ELSE settings.timeLimit

\* long exams: up to MaxLongExam items with one correct option each, one
\* selection per item, no countdown
LongQuestionLists ==
    {[i \in 1..n |-> [correctIndices |-> <<0>>]] : n \in 1..MaxLongExam}

LongSettingsRecords ==
    [negativeMarking : BOOLEAN, allowMultipleCorrect : {FALSE}, timeLimit : {0}]

Exams ==
    (QuestionLists \X SettingsRecords) \cup (LongQuestionLists \X LongSettingsRecords)

\* Math.max(0, (score / maxScore) * 10), score being in half points: the
\* quotient has the sign of the score, and 0 wins over a negative one
ScoreOutOfTen(halfPoints, maxScore) ==
    IF halfPoints < 0 THEN FloatZero
    ELSE FloatMul(FloatDiv(halfPoints, 2 * maxScore), 10)

\* a variant without the Math.max
GradeUnclamped(halfPoints, maxScore) ==
    IF halfPoints < 0
    THEN 0 - MathRound(FloatMul(FloatDiv(0 - halfPoints, 2 * maxScore), 10))
    ELSE MathRound(FloatMul(FloatDiv(halfPoints, 2 * maxScore), 10))

\* const grade = Math.round(Math.max(0, (score / maxScore) * 10))
Grade(halfPoints, maxScore) == MathRound(ScoreOutOfTen(halfPoints, maxScore))

\* the grade on the finished screen of test mode
grade == Grade(score, Len(questions))

isPass == grade >= 5

TestInit ==
    /\ \E exam \in Exams : questions = exam[1] /\ settings = exam[2]
    /\ currentIndex = 0
    /\ selectedOptions = <<>>
    /\ isAnswered = FALSE
    /\ score = 0
    /\ results = [correct |-> 0, wrong |-> 0]
    /\ timeLeft = settings.timeLimit
    /\ summary = <<>>

\* the component is not in use
TestIdle ==
    /\ questions = <<>>
    /\ settings = [negativeMarking |-> FALSE, allowMultipleCorrect |-> FALSE, timeLimit |-> 0]
    /\ currentIndex = 0
    /\ selectedOptions = <<>>
    /\ isAnswered = FALSE
    /\ score = 0
    /\ results = [correct |-> 0, wrong |-> 0]
    /\ timeLeft = 0
    /\ summary = <<>>

\* a click on an option of the item shown
handleOptionSelect(idx) ==
    /\ ~isFinished
    /\ ~isAnswered
    /\ selectedOptions' =
           IF settings.allowMultipleCorrect
           THEN IF idx \in SetOf(selectedOptions)
                THEN SelectSeq(selectedOptions, LAMBDA i : i # idx)
                ELSE Append(selectedOptions, idx)
           ELSE <<idx>>
    /\ UNCHANGED <<questions, settings, currentIndex, isAnswered, score, results,
                   timeLeft, summary>>
    /\ UNCHANGED <<distVars, segVars, openVars, linkVars, appVars, clozeVars, uploadVars>>

\* a click on the submit button, shown while the item is unanswered
handleSubmit ==
    /\ ~isFinished
    /\ ~isAnswered
    /\ selectedOptions # <<>>
    /\ LET correct == IsCorrect(currentQuestion.correctIndices, selectedOptions)
       IN /\ results' = IF correct
                        THEN [results EXCEPT !.correct = @ + 1]
                        ELSE [results EXCEPT !.wrong = @ + 1]
          /\ score' = score + Points(correct, settings.negativeMarking)
          /\ summary' = Append(summary,
                               [question |-> currentIndex,
                                userSelected |-> OptionTexts(selectedOptions),
                                correctSelected |-> OptionTexts(currentQuestion.correctIndices),
                                isCorrect |-> correct])
    /\ isAnswered' = TRUE
    /\ timeLeft' = TimerEffect(currentIndex, TRUE, timeLeft)
    /\ UNCHANGED <<questions, settings, currentIndex, selectedOptions>>
    /\ UNCHANGED <<distVars, segVars, openVars, linkVars, appVars, clozeVars, uploadVars>>

\* a click on the next button, shown once the item is answered
handleNext ==
    /\ ~isFinished
    /\ isAnswered
    /\ currentIndex' = currentIndex + 1
    /\ selectedOptions' = <<>>
    /\ isAnswered' = FALSE
    /\ timeLeft' = TimerEffect(currentIndex + 1, FALSE, timeLeft)
    /\ UNCHANGED <<questions, settings, score, results, summary>>
    /\ UNCHANGED <<distVars, segVars, openVars, linkVars, appVars, clozeVars, uploadVars>>

\* a variant that runs the countdown without looking at the time limit
TimerRunningUnlimited == ~isAnswered /\ ~isFinished

\* the countdown runs: there is a time limit and the item shown is unanswered
TimerRunning == settings.timeLimit # 0 /\ ~isAnswered /\ ~isFinished

\* the interval's callback with more than a second left
TimerTick ==
    /\ TimerRunning
    /\ timeLeft > 1
    /\ timeLeft' = timeLeft - 1
    /\ UNCHANGED <<questions, settings, currentIndex, selectedOptions, isAnswered,
                   score, results, summary>>
    /\ UNCHANGED <<distVars, segVars, openVars, linkVars, appVars, clozeVars, uploadVars>>

\* a variant of handleTimeout that counts the item but writes no record
handleTimeoutUnrecorded ==
    /\ TimerRunning
    /\ timeLeft <= 1
    /\ results' = [results EXCEPT !.wrong = @ + 1]
    /\ currentIndex' = currentIndex + 1
    /\ IF currentIndex < Len(questions) - 1
       THEN selectedOptions' = <<>> /\ isAnswered' = FALSE
       ELSE UNCHANGED <<selectedOptions, isAnswered>>
    /\ timeLeft' = TimerEffect(currentIndex + 1, isAnswered, 0)
    /\ UNCHANGED <<questions, settings, score, summary>>
    /\ UNCHANGED <<distVars, segVars, openVars, linkVars, appVars, clozeVars, uploadVars>>

\* the interval's callback on the last second: handleTimeout
handleTimeout ==
    /\ TimerRunning
    /\ timeLeft <= 1
    /\ results' = [results EXCEPT !.wrong = @ + 1]
    /\ summary' = Append(summary,
                         [question |-> currentIndex,
                          userSelected |-> TimedOut,
                          correctSelected |-> OptionTexts(currentQuestion.correctIndices),
                          isCorrect |-> FALSE])
    /\ currentIndex' = currentIndex + 1
    /\ IF currentIndex < Len(questions) - 1
       THEN selectedOptions' = <<>> /\ isAnswered' = FALSE
       ELSE UNCHANGED <<selectedOptions, isAnswered>>
    /\ timeLeft' = TimerEffect(currentIndex + 1, isAnswered, 0)
    /\ UNCHANGED <<questions, settings, score>>
    /\ UNCHANGED <<distVars, segVars, openVars, linkVars, appVars, clozeVars, uploadVars>>

TestNext ==
    \/ \E idx \in Options : handleOptionSelect(idx)
    \/ handleSubmit
    \/ handleNext
    \/ TimerTick
    \/ handleTimeout

---------------------------------------------------------------------------
(* ExamOpenMode                                                            *)

Null == [null |-> TRUE]

BenevolenceLevels == {"STRICT", "NORMAL", "BENEVOLENT"}

\* an open question, told from the others by its place in the exam
OpenQuestionLists(n) ==
    {[i \in 1..k |-> [question |-> i, modelAnswer |-> i]] : k \in 0..n}

OpenSettingsRecords == [timeLimit : {0, MaxTime}, benevolence : BenevolenceLevels]

LongOpenSettingsRecords == [timeLimit : {0}, benevolence : {"NORMAL"}]

OpenExams ==
    (OpenQuestionLists(MaxQuestions) \X OpenSettingsRecords)
        \cup (OpenQuestionLists(MaxLongOpenExam) \X LongOpenSettingsRecords)

\* what the user may have typed: nothing, blanks, an answer
Answers == {<<>>, <<" ">>, <<"a">>}

NoAnswer == <<"(Sin respuesta)">>
OpenTimedOut == <<"(Tiempo agotado)">>

\* the scores an evaluation may come back with
EvaluationScores == {0, 1}

openIsFinished == openIndex >= Len(openQuestions)

openCurrentQuestion == openQuestions[openIndex + 1]

\* the request evaluateOpenAnswer(question, modelAnswer, userAnswer,
\* benevolence = 'NORMAL') sends
evaluateOpenAnswer(question, modelAnswer, answer, benevolence) ==
    [question |-> question, modelAnswer |-> modelAnswer, userAnswer |-> answer,
     benevolence |-> benevolence]

\* the countdown effect of ExamOpenMode, run after a render in which one of
\* its dependencies changed
OpenTimerEffect(index, shown, checked, evaluating, left) ==
    IF openSettings.timeLimit = 0 \/ shown # Null \/ checked
           \/ index >= Len(openQuestions) \/ evaluating
    THEN left ELSE openSettings.timeLimit

OpenInit ==
    /\ \E exam \in OpenExams : openQuestions = exam[1] /\ openSettings = exam[2]
    /\ openIndex = 0
    /\ userAnswer = <<>>
    /\ evaluation = Null
    /\ showModelAnswer = FALSE
    /\ isEvaluating = FALSE
    /\ totalScore = 0
    /\ openTimeLeft = openSettings.timeLimit
    /\ openSummary = <<>>
    /\ evalRequests = <<>>

\* the component is not in use
OpenIdle ==
    /\ openQuestions = <<>>
    /\ openSettings = [timeLimit |-> 0, benevolence |-> "NORMAL"]
    /\ openIndex = 0
    /\ userAnswer = <<>>
    /\ evaluation = Null
    /\ showModelAnswer = FALSE
    /\ isEvaluating = FALSE
    /\ totalScore = 0
    /\ openTimeLeft = 0
    /\ openSummary = <<>>
    /\ evalRequests = <<>>

\* the item shown awaits its answer: the text area and the check button work
OpenUnanswered ==
    ~openIsFinished /\ evaluation = Null /\ ~showModelAnswer /\ ~isEvaluating

\* typing in the text area
setUserAnswer(text) ==
    /\ OpenUnanswered
    /\ userAnswer' = text
    /\ UNCHANGED <<openQuestions, openSettings, openIndex, evaluation, showModelAnswer,
                   isEvaluating, totalScore, openTimeLeft, openSummary, evalRequests>>
    /\ UNCHANGED <<distVars, segVars, testVars, linkVars, appVars, clozeVars, uploadVars>>

\* handleCheck with no answer typed: the model answer is shown
handleCheckEmpty ==
    /\ OpenUnanswered
    /\ trim(userAnswer) = <<>>
    /\ showModelAnswer' = TRUE
    /\ openSummary' = Append(openSummary,
                             [q |-> openCurrentQuestion.question,
                              a |-> NoAnswer,
                              m |-> openCurrentQuestion.modelAnswer,
                              score |-> 0])
    /\ openTimeLeft' = OpenTimerEffect(openIndex, evaluation, TRUE, FALSE, openTimeLeft)
    /\ UNCHANGED <<openQuestions, openSettings, openIndex, userAnswer, evaluation,
                   isEvaluating, totalScore, evalRequests>>
    /\ UNCHANGED <<distVars, segVars, testVars, linkVars, appVars, clozeVars, uploadVars>>

\* handleCheck with an answer, up to the await: the request leaves
handleCheckSend ==
    /\ OpenUnanswered
    /\ trim(userAnswer) # <<>>
    /\ isEvaluating' = TRUE
    /\ evalRequests' = Append(evalRequests,
                              evaluateOpenAnswer(openCurrentQuestion.question,
                                                 openCurrentQuestion.modelAnswer,
                                                 userAnswer, "NORMAL"))
    /\ openTimeLeft' = OpenTimerEffect(openIndex, evaluation, showModelAnswer, TRUE,
                                       openTimeLeft)
    /\ UNCHANGED <<openQuestions, openSettings, openIndex, userAnswer, evaluation,
                   showModelAnswer, totalScore, openSummary>>
    /\ UNCHANGED <<distVars, segVars, testVars, linkVars, appVars, clozeVars, uploadVars>>

\* handleCheck after the await: the evaluation came back
handleCheckResult(result) ==
    /\ isEvaluating
    /\ evaluation' = [score |-> result, feedback |-> "feedback"]
    /\ totalScore' = IF result = 1 THEN totalScore + 1 ELSE totalScore
    /\ openSummary' = Append(openSummary,
                             [q |-> openCurrentQuestion.question,
                              a |-> userAnswer,
                              m |-> openCurrentQuestion.modelAnswer,
                              score |-> result])
    /\ isEvaluating' = FALSE
    /\ openTimeLeft' = OpenTimerEffect(openIndex, evaluation', showModelAnswer, FALSE,
                                       openTimeLeft)
    /\ UNCHANGED <<openQuestions, openSettings, openIndex, userAnswer, showModelAnswer,
                   evalRequests>>
    /\ UNCHANGED <<distVars, segVars, testVars, linkVars, appVars, clozeVars, uploadVars>>

\* a variant without the finally block
handleCheckErrorStillEvaluating ==
    /\ isEvaluating
    /\ evaluation' = [score |-> 0, feedback |-> "Error al evaluar con IA."]
    /\ isEvaluating' = TRUE
    /\ openTimeLeft' = OpenTimerEffect(openIndex, evaluation', showModelAnswer, TRUE,
                                       openTimeLeft)
    /\ UNCHANGED <<openQuestions, openSettings, openIndex, userAnswer, showModelAnswer,
                   totalScore, openSummary, evalRequests>>
    /\ UNCHANGED <<distVars, segVars, testVars, linkVars, appVars, clozeVars, uploadVars>>

\* handleCheck after the await: the request failed (catch, finally)
handleCheckError ==
    /\ isEvaluating
    /\ evaluation' = [score |-> 0, feedback |-> "Error al evaluar con IA."]
    /\ isEvaluating' = FALSE
    /\ openTimeLeft' = OpenTimerEffect(openIndex, evaluation', showModelAnswer, FALSE,
                                       openTimeLeft)
    /\ UNCHANGED <<openQuestions, openSettings, openIndex, userAnswer, showModelAnswer,
                   totalScore, openSummary, evalRequests>>
    /\ UNCHANGED <<distVars, segVars, testVars, linkVars, appVars, clozeVars, uploadVars>>

\* handleNextStep: the next item, its input emptied, or the end of the exam
handleNextStep ==
    /\ openIndex' = openIndex + 1
    /\ IF openIndex < Len(openQuestions) - 1
       THEN userAnswer' = <<>> /\ evaluation' = Null /\ showModelAnswer' = FALSE
       ELSE UNCHANGED <<userAnswer, evaluation, showModelAnswer>>

\* a click on the next button, shown once the item is checked
OpenHandleNext ==
    /\ ~openIsFinished
    /\ evaluation # Null \/ showModelAnswer
    /\ handleNextStep
    /\ openTimeLeft' = OpenTimerEffect(openIndex', evaluation', showModelAnswer',
                                       isEvaluating, openTimeLeft)
    /\ UNCHANGED <<openQuestions, openSettings, isEvaluating, totalScore, openSummary,
                   evalRequests>>
    /\ UNCHANGED <<distVars, segVars, testVars, linkVars, appVars, clozeVars, uploadVars>>

\* a variant that keeps the countdown going while the answer is evaluated
OpenTimerRunningWhileEvaluating ==
    openSettings.timeLimit # 0 /\ ~openIsFinished /\ evaluation = Null /\ ~showModelAnswer

\* the countdown of ExamOpenMode runs
OpenTimerRunning == openSettings.timeLimit # 0 /\ OpenUnanswered

\* the interval's callback with more than a second left
OpenTimerTick ==
    /\ OpenTimerRunning
    /\ openTimeLeft > 1
    /\ openTimeLeft' = openTimeLeft - 1
    /\ UNCHANGED <<openQuestions, openSettings, openIndex, userAnswer, evaluation,
                   showModelAnswer, isEvaluating, totalScore, openSummary, evalRequests>>
    /\ UNCHANGED <<distVars, segVars, testVars, linkVars, appVars, clozeVars, uploadVars>>

\* the interval's callback on the last second: handleTimeout
OpenHandleTimeout ==
    /\ OpenTimerRunning
    /\ openTimeLeft <= 1
    /\ openSummary' = Append(openSummary,
                             [q |-> openCurrentQuestion.question,
                              a |-> OpenTimedOut,
                              m |-> openCurrentQuestion.modelAnswer,
                              score |-> 0])
    /\ handleNextStep
    /\ openTimeLeft' = OpenTimerEffect(openIndex', evaluation', showModelAnswer',
                                       isEvaluating, 0)
    /\ UNCHANGED <<openQuestions, openSettings, isEvaluating, totalScore, evalRequests>>
    /\ UNCHANGED <<distVars, segVars, testVars, linkVars, appVars, clozeVars, uploadVars>>

OpenNext ==
    \/ \E text \in Answers : setUserAnswer(text)
    \/ handleCheckEmpty
    \/ handleCheckSend
    \/ \E result \in EvaluationScores : handleCheckResult(result)
    \/ handleCheckError
    \/ OpenHandleNext
    \/ OpenTimerTick
    \/ OpenHandleTimeout

\* const grade = Math.round((totalScore / questions.length) * 10)
openGrade == MathRound(FloatMul(FloatDiv(totalScore, Len(openQuestions)), 10))

openIsPass == openGrade >= 5

---------------------------------------------------------------------------
(* ExamClozeMode: the review of the cards.  A handler ends with the render  *)
(* it causes; the effect on currentCard runs after that render is shown.   *)

MaxCards == 4       \* cards of a review

\* the cards of the reviews, told apart by their text
ClozeCardLists ==
    SeqsUpTo({[fullText |-> <<"a">>, hiddenWords |-> <<>>],
              [fullText |-> <<"A">>, hiddenWords |-> <<>>]}, MaxCards)

\* const isFinished = currentIndex >= cards.length
clozeIsFinished == clozeIndex >= Len(cards)

ClozeInit ==
    /\ cards \in ClozeCardLists
    /\ clozeIndex = 0
    /\ isRevealed = FALSE
    /\ cardEffect = FALSE

\* the component is not in use
ClozeIdle ==
    /\ cards = <<>>
    /\ clozeIndex = 0
    /\ isRevealed = FALSE
    /\ cardEffect = FALSE

\* onClick={() => setIsRevealed(true)}, the button of a card not revealed
RevealCard ==
    /\ ~cardEffect
    /\ ~clozeIsFinished
    /\ ~isRevealed
    /\ isRevealed' = TRUE
    /\ UNCHANGED <<cards, clozeIndex, cardEffect>>
    /\ UNCHANGED <<distVars, segVars, testVars, openVars, linkVars, appVars, uploadVars>>

\* handleNext, the button of a revealed card: currentCard changes
ClozeHandleNext ==
    /\ ~cardEffect
    /\ ~clozeIsFinished
    /\ isRevealed
    /\ clozeIndex' = clozeIndex + 1
    /\ cardEffect' = TRUE
    /\ UNCHANGED <<cards, isRevealed>>
    /\ UNCHANGED <<distVars, segVars, testVars, openVars, linkVars, appVars, uploadVars>>

\* onClick={() => setCurrentIndex(cards.length)}, the Terminar button
ClozeFinish ==
    /\ ~cardEffect
    /\ ~clozeIsFinished
    /\ clozeIndex' = Len(cards)
    /\ cardEffect' = TRUE
    /\ UNCHANGED <<cards, isRevealed>>
    /\ UNCHANGED <<distVars, segVars, testVars, openVars, linkVars, appVars, uploadVars>>

\* useEffect(() => { if (currentCard) setIsRevealed(false) }, [currentCard])
CardEffect ==
    /\ cardEffect
    /\ isRevealed' = IF clozeIsFinished THEN isRevealed ELSE FALSE
    /\ cardEffect' = FALSE
    /\ UNCHANGED <<cards, clozeIndex>>
    /\ UNCHANGED <<distVars, segVars, testVars, openVars, linkVars, appVars, uploadVars>>

ClozeNext == RevealCard \/ ClozeHandleNext \/ ClozeFinish \/ CardEffect

---------------------------------------------------------------------------
(* createPDFLink: the source attribution of an item as a link to a page of *)
(* an uploaded file.  A name is a sequence of characters; "(Pág." is one   *)
(* atom of the model.                                                      *)

MaxFiles == 2       \* uploaded files

PageOpen == "(Pág."

PageDigits == {"1", "2"}

\* the names of the uploaded files
FileNames ==
    { <<"a", ".", "b">>, <<"A", ".", "b">>, <<"a", ".", "a">>, <<"a">>,
      <<"b", ".", "b">>, <<".", "b">> }

\* the document names the attributions carry
AttributionNames == FileNames \cup { <<"A">>, <<"a", ".">> }

\* what follows the name in an attribution: a page reference, well formed
\* or not
AttributionTails ==
    { <<PageOpen, "1", ")">>, <<PageOpen, " ", "1", "2", ")">>, <<>>,
      <<PageOpen, ")">>, <<PageOpen, "1", ")", " ">> }

SourceFiles ==
    {Undefined, <<>>}
    \cup {name \o sep \o tail : name \in AttributionNames,
                                sep \in {<<>>, <<" ">>},
                                tail \in AttributionTails}

\* new Map(): the keys are distinct and keep their insertion order
FileMaps ==
    {Null} \cup {[keys |-> k] : k \in {f \in SeqsUpTo(FileNames, MaxFiles) :
                                          \A i, j \in 1..Len(f) : f[i] = f[j] => i = j}}

RECURSIVE SkipSpace(_)
\* \s*
SkipSpace(str) ==
    IF str # <<>> /\ Head(str) \in WhiteSpace THEN SkipSpace(Tail(str)) ELSE str

RECURSIVE DigitRun(_)
\* the length of the run \d+ takes at the head of str
DigitRun(str) ==
    IF str # <<>> /\ Head(str) \in PageDigits THEN 1 + DigitRun(Tail(str)) ELSE 0

\* \s*\(Pág\.\s*(\d+)\)$ against the whole of rest: the digits, or Undefined
PageNumOf(rest) ==
    LET opened == SkipSpace(rest)
    IN IF opened = <<>> \/ Head(opened) # PageOpen THEN Undefined
       ELSE LET number == SkipSpace(Tail(opened))
                n == DigitRun(number)
            IN IF n >= 1 /\ Len(number) = n + 1 /\ number[n + 1] = ")"
               THEN SubSeq(number, 1, n)
               ELSE Undefined

\* sourceFile.match(/^(.+?)\s*\(Pág\.\s*(\d+)\)$/): the lazy name group takes
\* the fewest characters that let the rest match
MatchSource(src) ==
    LET ends == {k \in 1..Len(src) :
                    PageNumOf(SubSeq(src, k + 1, Len(src))) # Undefined}
    IN IF ends = {} THEN Null
       ELSE [filename |-> SubSeq(src, 1, Min(ends)),
             pageNum |-> PageNumOf(SubSeq(src, Min(ends) + 1, Len(src)))]

\* name.replace(/\.[^.]+$/, '').toLowerCase()
BaseName(name) ==
    LET dots == {i \in 1..Len(name) : name[i] = "."}
        last == CHOOSE i \in dots : \A j \in dots : j <= i
    IN toLowerCase(IF dots = {} \/ last = Len(name) THEN name
                   ELSE SubSeq(name, 1, last - 1))

\* uploadedFiles.get(name): the file is identified by its key
MapGet(files, name) ==
    IF \E i \in 1..Len(files.keys) : files.keys[i] = name THEN name ELSE Undefined

\* the loop over uploadedFiles.entries(): the first key with the same base name
FuzzyGet(files, name) ==
    LET hits == {i \in 1..Len(files.keys) : BaseName(files.keys[i]) = BaseName(name)}
    IN IF hits = {} THEN Undefined ELSE files.keys[Min(hits)]

PlainText(src) == [url |-> Null, display |-> src]

\* `${blobUrl}#page=${pageNum}`
PageLink(file, pageNum, src) ==
    [url |-> [file |-> file, page |-> pageNum], display |-> src]

\* exact match first, then the base names
FindFile(files, name) ==
    IF MapGet(files, name) # Undefined THEN MapGet(files, name)
    ELSE FuzzyGet(files, name)

\* createPDFLink of ExamTestMode
createPDFLink(files, src) ==
    IF src = Undefined \/ src = <<>> \/ files = Null
    THEN PlainText(IF src = Undefined THEN <<>> ELSE src)
    ELSE LET match == MatchSource(src)
         IN IF match = Null THEN PlainText(src)
            ELSE LET file == FindFile(files, trim(match.filename))
                 IN IF file = Undefined THEN PlainText(src)
                    ELSE PageLink(file, match.pageNum, src)

\* createPDFLink of ExamClozeMode: the same text as in ExamTestMode
ClozeCreatePDFLink(files, src) == createPDFLink(files, src)

\* createPDFLink of ExamOpenMode: exact match only
OpenCreatePDFLink(files, src) ==
    IF src = Undefined \/ src = <<>> \/ files = Null
    THEN PlainText(IF src = Undefined THEN <<>> ELSE src)
    ELSE LET match == MatchSource(src)
         IN IF match = Null THEN PlainText(src)
            ELSE LET file == MapGet(files, trim(match.filename))
                 IN IF file = Undefined THEN PlainText(src)
                    ELSE PageLink(file, match.pageNum, src)

LinkInit ==
    /\ uploadedFiles \in FileMaps
    /\ sourceFile \in SourceFiles
    /\ link = Null
    /\ linkMode \in {"TEST", "CLOZE", "OPEN"}

\* the component is not in use
LinkIdle ==
    /\ uploadedFiles = Null
    /\ sourceFile = Undefined
    /\ link = Null
    /\ linkMode = "off"

\* ExamTestMode renders the source of the item shown
TestSourceLink ==
    /\ linkMode = "TEST"
    /\ link = Null
    /\ link' = createPDFLink(uploadedFiles, sourceFile)
    /\ UNCHANGED <<uploadedFiles, sourceFile, linkMode>>
    /\ UNCHANGED <<distVars, segVars, testVars, openVars, appVars, clozeVars, uploadVars>>

\* ExamClozeMode renders the source of the card shown
ClozeSourceLink ==
    /\ linkMode = "CLOZE"
    /\ link = Null
    /\ link' = ClozeCreatePDFLink(uploadedFiles, sourceFile)
    /\ UNCHANGED <<uploadedFiles, sourceFile, linkMode>>
    /\ UNCHANGED <<distVars, segVars, testVars, openVars, appVars, clozeVars, uploadVars>>

\* ExamOpenMode renders the source of the item shown
OpenSourceLink ==
    /\ linkMode = "OPEN"
    /\ link = Null
    /\ link' = OpenCreatePDFLink(uploadedFiles, sourceFile)
    /\ UNCHANGED <<uploadedFiles, sourceFile, linkMode>>
    /\ UNCHANGED <<distVars, segVars, testVars, openVars, appVars, clozeVars, uploadVars>>

LinkNext == TestSourceLink \/ ClozeSourceLink \/ OpenSourceLink

---------------------------------------------------------------------------
(* App: the steps UPLOAD, SETTINGS, LOADING and EXAM, with FileUpload's     *)
(* processFiles and the exam components mounted in the EXAM step.          *)

MaxPending == 2     \* generation requests awaiting their response

ExamTypes == {"TEST", "CLOZE_FLASHCARD", "OPEN_FLASHCARD"}

\* the settings Settings hands to onStart
AppSettingsRecords ==
    [type : ExamTypes, timeLimit : {MaxTime}, negativeMarking : {FALSE},
     allowMultipleCorrect : {FALSE}, benevolence : {"NORMAL"}]

\* { type: ExamType.TEST, questionCount: 5, difficulty: 'MEDIUM' }
InitialSettings ==
    [type |-> "TEST", timeLimit |-> 0, negativeMarking |-> FALSE,
     allowMultipleCorrect |-> FALSE, benevolence |-> "NORMAL"]

\* a PDF of one page without text, and one of one page with text
ImageOnly(n) == [name |-> n, numPages |-> 1, pageLen |-> 0]
TextFile(n) == [name |-> n, numPages |-> 1, pageLen |-> PageChars]

\* FileUpload's selection when processFiles runs
SelectedFiles == {<<ImageOnly(1)>>, <<TextFile(1)>>, <<ImageOnly(1), ImageOnly(2)>>}

\* text.trim().length === 0: a marker has characters that are not blank, and
\* so has the text of a document, which holds its page markers
TrimIsEmpty(text) == \A k \in 1..Len(text) : text[k].kind = "text" /\ text[k].len = 0

\* the items a generation response carries
GeneratedItems(type) ==
    CASE type = "TEST" -> {<<[correctIndices |-> <<0>>]>>, <<[correctIndices |-> <<1>>]>>}
      [] type = "CLOZE_FLASHCARD" -> {<<[fullText |-> <<"a">>, hiddenWords |-> <<>>]>>}
      [] type = "OPEN_FLASHCARD" -> {<<[question |-> 1, modelAnswer |-> 1]>>}

RemoveAt(seq, i) == SubSeq(seq, 1, i - 1) \o SubSeq(seq, i + 1, Len(seq))

\* the exam component App renders: none outside the EXAM step
ExamMode(st, sett) == IF st = "EXAM" THEN sett.type ELSE "none"

TestSettingsOf(sett) ==
    [negativeMarking |-> sett.negativeMarking,
     allowMultipleCorrect |-> sett.allowMultipleCorrect,
     timeLimit |-> sett.timeLimit]

OpenSettingsOf(sett) == [timeLimit |-> sett.timeLimit, benevolence |-> sett.benevolence]

\* App renders after a state change: ExamTestMode is mounted with fresh
\* state, keeps its state under new props, or is unmounted
RenderTestMode(was) ==
    IF ExamMode(step', appSettings') = "TEST"
    THEN /\ questions' = testQuestions'
         /\ settings' = TestSettingsOf(appSettings')
         /\ IF was = "TEST"
            THEN /\ timeLeft' =
                        IF (currentIndex >= Len(questions))
                               = (currentIndex >= Len(testQuestions'))
                           \/ appSettings'.timeLimit = 0 \/ isAnswered
                           \/ currentIndex >= Len(testQuestions')
                        THEN timeLeft ELSE appSettings'.timeLimit
                 /\ UNCHANGED <<currentIndex, selectedOptions, isAnswered, score,
                                results, summary>>
            ELSE /\ currentIndex' = 0
                 /\ selectedOptions' = <<>>
                 /\ isAnswered' = FALSE
                 /\ score' = 0
                 /\ results' = [correct |-> 0, wrong |-> 0]
                 /\ timeLeft' = appSettings'.timeLimit
                 /\ summary' = <<>>
    ELSE /\ questions' = <<>>
         /\ settings' = [negativeMarking |-> FALSE, allowMultipleCorrect |-> FALSE,
                         timeLimit |-> 0]
         /\ currentIndex' = 0
         /\ selectedOptions' = <<>>
         /\ isAnswered' = FALSE
         /\ score' = 0
         /\ results' = [correct |-> 0, wrong |-> 0]
         /\ timeLeft' = 0
         /\ summary' = <<>>

\* the same for ExamOpenMode
RenderOpenMode(was) ==
    IF ExamMode(step', appSettings') = "OPEN_FLASHCARD"
    THEN /\ openQuestions' = stateOpenQuestions'
         /\ openSettings' = OpenSettingsOf(appSettings')
         /\ IF was = "OPEN_FLASHCARD"
            THEN /\ openTimeLeft' =
                        IF (openIndex >= Len(openQuestions))
                               = (openIndex >= Len(stateOpenQuestions'))
                           \/ appSettings'.timeLimit = 0 \/ evaluation # Null
                           \/ showModelAnswer \/ isEvaluating
                           \/ openIndex >= Len(stateOpenQuestions')
                        THEN openTimeLeft ELSE appSettings'.timeLimit
                 /\ UNCHANGED <<openIndex, userAnswer, evaluation, showModelAnswer,
                                isEvaluating, totalScore, openSummary, evalRequests>>
            ELSE /\ openIndex' = 0
                 /\ userAnswer' = <<>>
                 /\ evaluation' = Null
                 /\ showModelAnswer' = FALSE
                 /\ isEvaluating' = FALSE
                 /\ totalScore' = 0
                 /\ openTimeLeft' = appSettings'.timeLimit
                 /\ openSummary' = <<>>
                 /\ evalRequests' = <<>>
    ELSE /\ openQuestions' = <<>>
         /\ openSettings' = [timeLimit |-> 0, benevolence |-> "NORMAL"]
         /\ openIndex' = 0
         /\ userAnswer' = <<>>
         /\ evaluation' = Null
         /\ showModelAnswer' = FALSE
         /\ isEvaluating' = FALSE
         /\ totalScore' = 0
         /\ openTimeLeft' = 0
         /\ openSummary' = <<>>
         /\ evalRequests' = <<>>

\* the same for ExamClozeMode: new cards make a new currentCard
RenderClozeMode(was) ==
    IF ExamMode(step', appSettings') = "CLOZE_FLASHCARD"
    THEN /\ cards' = clozeCards'
         /\ IF was = "CLOZE_FLASHCARD"
            THEN /\ cardEffect' = (cardEffect \/ clozeCards' # clozeCards)
                 /\ UNCHANGED <<clozeIndex, isRevealed>>
            ELSE /\ clozeIndex' = 0
                 /\ isRevealed' = FALSE
                 /\ cardEffect' = FALSE
    ELSE /\ cards' = <<>>
         /\ clozeIndex' = 0
         /\ isRevealed' = FALSE
         /\ cardEffect' = FALSE

RenderExam ==
    /\ RenderTestMode(ExamMode(step, appSettings))
    /\ RenderOpenMode(ExamMode(step, appSettings))
    /\ RenderClozeMode(ExamMode(step, appSettings))

AppInit ==
    /\ step = "UPLOAD"
    /\ appSettings = InitialSettings
    /\ testQuestions = <<>>
    /\ clozeCards = <<>>
    /\ stateOpenQuestions = <<>>
    /\ backgroundImage = Null
    /\ apiKey \in BOOLEAN
    /\ generations = <<>>
    /\ alert = "none"

\* the component is not in use
AppIdle ==
    /\ step = "off"
    /\ appSettings = InitialSettings
    /\ testQuestions = <<>>
    /\ clozeCards = <<>>
    /\ stateOpenQuestions = <<>>
    /\ backgroundImage = Null
    /\ apiKey = FALSE
    /\ generations = <<>>
    /\ alert = "none"

\* onTextExtracted({ text, files })
handleTextExtracted(text, files) ==
    /\ pdfText' = text
    /\ uploadedFiles' = [keys |-> [i \in 1..Len(files) |-> files[i].name]]
    /\ step' = "SETTINGS"

\* the button of FileUpload, shown in the UPLOAD step, with files selected;
\* extracted tells whether pdf.js could read them
processFiles(files, extracted) ==
    /\ step = "UPLOAD"
    /\ IF ~extracted
       THEN /\ alert' = "Error analizando los PDFs."
            /\ UNCHANGED <<pdfText, uploadedFiles, step>>
       ELSE IF TrimIsEmpty(extractTextFromPDFs(files))
            THEN /\ alert' = "No se pudo extraer texto."
                 /\ UNCHANGED <<pdfText, uploadedFiles, step>>
            ELSE /\ alert' = "none"
                 /\ handleTextExtracted(extractTextFromPDFs(files), files)
    /\ UNCHANGED <<appSettings, testQuestions, clozeCards, stateOpenQuestions,
                   backgroundImage, apiKey, generations>>
    /\ UNCHANGED <<origin, sourceDocs, totalQuestions, distribution, distPc>>
    /\ UNCHANGED <<sourceFile, link, linkMode>>
    /\ fileSelection' = IF step' = "UPLOAD" THEN fileSelection ELSE <<>>
    /\ UNCHANGED <<segVars, testVars, openVars, clozeVars>>

\* generateThematicBackground(data.text) resolves with an image
BackgroundGenerated ==
    /\ apiKey
    /\ pdfText # <<>>
    /\ backgroundImage = Null
    /\ backgroundImage' = [image |-> TRUE]
    /\ UNCHANGED <<step, appSettings, testQuestions, clozeCards, stateOpenQuestions,
                   apiKey, generations, alert>>
    /\ UNCHANGED <<distVars, segVars, testVars, openVars, linkVars, clozeVars, uploadVars>>

\* onStart of Settings, up to the await: without a credential getAiClient
\* throws before the request is made and the catch block runs at once
handleStartExam(newSettings) ==
    /\ step = "SETTINGS"
    /\ Len(generations) < MaxPending
    /\ appSettings' = newSettings
    /\ IF apiKey
       THEN /\ step' = "LOADING"
            /\ generations' = Append(generations, [type |-> newSettings.type])
            /\ alert' = "none"
       ELSE /\ step' = "SETTINGS"
            /\ generations' = generations
            /\ alert' = "Error al generar el examen."
    /\ UNCHANGED <<testQuestions, clozeCards, stateOpenQuestions, backgroundImage,
                   apiKey>>
    /\ RenderExam
    /\ UNCHANGED <<distVars, segVars, linkVars, uploadVars>>

\* the rest of handleStartExam: the response of request i holds items
GenerationSucceeds(i, items) ==
    /\ i \in 1..Len(generations)
    /\ items \in GeneratedItems(generations[i].type)
    /\ testQuestions' = IF generations[i].type = "TEST" THEN items ELSE testQuestions
    /\ clozeCards' =
           IF generations[i].type = "CLOZE_FLASHCARD" THEN items ELSE clozeCards
    /\ stateOpenQuestions' =
           IF generations[i].type = "OPEN_FLASHCARD" THEN items ELSE stateOpenQuestions
    /\ step' = "EXAM"
    /\ generations' = RemoveAt(generations, i)
    /\ alert' = "none"
    /\ UNCHANGED <<appSettings, backgroundImage, apiKey>>
    /\ RenderExam
    /\ UNCHANGED <<distVars, segVars, linkVars, uploadVars>>

\* a variant whose catch block shows nothing
GenerationFailsSilently(i) ==
    /\ i \in 1..Len(generations)
    /\ alert' = "none"
    /\ step' = "SETTINGS"
    /\ generations' = RemoveAt(generations, i)
    /\ UNCHANGED <<appSettings, testQuestions, clozeCards, stateOpenQuestions,
                   backgroundImage, apiKey>>
    /\ RenderExam
    /\ UNCHANGED <<distVars, segVars, linkVars, uploadVars>>

\* the catch block of handleStartExam: request i failed, or its response
\* could not be parsed
GenerationFails(i) ==
    /\ i \in 1..Len(generations)
    /\ alert' = "Error al generar el examen."
    /\ step' = "SETTINGS"
    /\ generations' = RemoveAt(generations, i)
    /\ UNCHANGED <<appSettings, testQuestions, clozeCards, stateOpenQuestions,
                   backgroundImage, apiKey>>
    /\ RenderExam
    /\ UNCHANGED <<distVars, segVars, linkVars, uploadVars>>

\* the restart button an exam component shows once it is over
RestartShown ==
    /\ step = "EXAM"
    /\ appSettings.type = "TEST" => isFinished
    /\ appSettings.type = "OPEN_FLASHCARD" => openIsFinished
    /\ appSettings.type = "CLOZE_FLASHCARD" => (clozeIsFinished /\ ~cardEffect)

\* a variant that keeps the open questions
handleRestartKeepingOpen ==
    /\ RestartShown
    /\ step' = "SETTINGS"
    /\ testQuestions' = <<>>
    /\ clozeCards' = <<>>
    /\ stateOpenQuestions' = stateOpenQuestions
    /\ alert' = "none"
    /\ UNCHANGED <<appSettings, backgroundImage, apiKey, generations>>
    /\ RenderExam
    /\ UNCHANGED <<distVars, segVars, linkVars, uploadVars>>

handleRestart ==
    /\ RestartShown
    /\ step' = "SETTINGS"
    /\ testQuestions' = <<>>
    /\ clozeCards' = <<>>
    /\ stateOpenQuestions' = <<>>
    /\ alert' = "none"
    /\ UNCHANGED <<appSettings, backgroundImage, apiKey, generations>>
    /\ RenderExam
    /\ UNCHANGED <<distVars, segVars, linkVars, uploadVars>>

\* a click on the logo of the navigation bar
LogoClick ==
    /\ step' = "UPLOAD"
    /\ alert' = "none"
    /\ UNCHANGED <<appSettings, testQuestions, clozeCards, stateOpenQuestions,
                   backgroundImage, apiKey, generations>>
    /\ RenderExam
    /\ UNCHANGED <<distVars, segVars, linkVars, uploadVars>>

\* a step of the exam component that is mounted
TestModeStep == step = "EXAM" /\ appSettings.type = "TEST" /\ TestNext

OpenModeStep == step = "EXAM" /\ appSettings.type = "OPEN_FLASHCARD" /\ OpenNext

ClozeModeStep == step = "EXAM" /\ appSettings.type = "CLOZE_FLASHCARD" /\ ClozeNext

AppNext ==
    \/ \E files \in SelectedFiles, extracted \in BOOLEAN : processFiles(files, extracted)
    \/ BackgroundGenerated
    \/ \E newSettings \in AppSettingsRecords : handleStartExam(newSettings)
    \/ \E i \in 1..MaxPending :
          \E items \in UNION {GeneratedItems(t) : t \in ExamTypes} :
              GenerationSucceeds(i, items)
    \/ \E i \in 1..MaxPending : GenerationFails(i)
    \/ handleRestart
    \/ LogoClick
    \/ TestModeStep
    \/ OpenModeStep
    \/ ClozeModeStep

---------------------------------------------------------------------------
(* FileUpload: the selection of files, shown in the UPLOAD step            *)

MaxBatch == 2       \* files of one pick or drop
MaxSelection == 3   \* files selected

\* the files a pick or a drop may carry: PDFs of one page, told apart by
\* name, and files that are not PDFs
PickedFiles ==
    [name : {1, 2}, numPages : {1}, pageLen : {PageChars},
     type : {"application/pdf", "text/plain"}]

Batches == SeqsUpTo(PickedFiles, MaxBatch)

UploadInit == fileSelection = <<>>

\* the component is not in use
UploadIdle == fileSelection = <<>>

\* validFiles: the PDFs of the batch whose name no selected file has
ValidFiles(newFiles) ==
    SelectSeq(newFiles,
              LAMBDA file :
                  /\ file.type = "application/pdf"
                  /\ ~\E k \in 1..Len(fileSelection) : fileSelection[k].name = file.name)

\* handleNewFiles, from the file input or from a drop
handleNewFiles(newFiles) ==
    /\ step = "UPLOAD"
    /\ Len(fileSelection) + Len(ValidFiles(newFiles)) <= MaxSelection
    /\ fileSelection' = fileSelection \o ValidFiles(newFiles)
    /\ UNCHANGED <<distVars, segVars, testVars, openVars, linkVars, appVars, clozeVars>>

\* removeFile(index, e)
removeFile(index) ==
    /\ step = "UPLOAD"
    /\ index \in 0..Len(fileSelection) - 1
    /\ fileSelection' = RemoveAt(fileSelection, index + 1)
    /\ UNCHANGED <<distVars, segVars, testVars, openVars, linkVars, appVars, clozeVars>>

\* onClick={(e) => { e.stopPropagation(); setFiles([]); }}
ClearFiles ==
    /\ step = "UPLOAD"
    /\ fileSelection # <<>>
    /\ fileSelection' = <<>>
    /\ UNCHANGED <<distVars, segVars, testVars, openVars, linkVars, appVars, clozeVars>>

\* the process button, on the files selected
ProcessSelection ==
    /\ fileSelection # <<>>
    /\ \E extracted \in BOOLEAN : processFiles(fileSelection, extracted)

UploadNext ==
    \/ \E newFiles \in Batches : handleNewFiles(newFiles)
    \/ \E index \in 0..MaxSelection - 1 : removeFile(index)
    \/ ClearFiles
    \/ ProcessSelection
    \/ LogoClick

---------------------------------------------------------------------------
(* The specifications.                                                     *)

DistStart == DistInit /\ SegIdle /\ TestIdle /\ OpenIdle /\ LinkIdle /\ AppIdle /\ ClozeIdle
        /\ UploadIdle

DistSpec == DistStart /\ [][DistNext]_vars

SegStart == SegInit /\ DistIdle /\ TestIdle /\ OpenIdle /\ LinkIdle /\ AppIdle /\ ClozeIdle
        /\ UploadIdle

SegSpec == SegStart /\ [][SegNext]_vars

TestStart == TestInit /\ DistIdle /\ SegIdle /\ OpenIdle /\ LinkIdle /\ AppIdle /\ ClozeIdle
        /\ UploadIdle

TestSpec == TestStart /\ [][TestNext]_vars

OpenStart == OpenInit /\ DistIdle /\ SegIdle /\ TestIdle /\ LinkIdle /\ AppIdle /\ ClozeIdle
        /\ UploadIdle

OpenSpec == OpenStart /\ [][OpenNext]_vars

LinkStart == LinkInit /\ DistIdle /\ SegIdle /\ TestIdle /\ OpenIdle /\ AppIdle /\ ClozeIdle
        /\ UploadIdle

LinkSpec == LinkStart /\ [][LinkNext]_vars

AppStart == AppInit /\ DistIdle /\ SegIdle /\ TestIdle /\ OpenIdle /\ LinkIdle /\ ClozeIdle
        /\ UploadIdle

AppSpec == AppStart /\ [][AppNext]_vars

ClozeStart ==
    ClozeInit /\ DistIdle /\ SegIdle /\ TestIdle /\ OpenIdle /\ LinkIdle /\ AppIdle /\ UploadIdle

UploadStart ==
    UploadInit /\ AppInit /\ DistIdle /\ SegIdle /\ TestIdle /\ OpenIdle /\ LinkIdle
        /\ ClozeIdle

UploadSpec == UploadStart /\ [][UploadNext]_vars

ClozeSpec == ClozeStart /\ [][ClozeNext]_vars

\* an exam session of either mode
ExamStart == TestStart \/ OpenStart

ExamNext == TestNext \/ OpenNext

ExamSpec == ExamStart /\ [][ExamNext]_vars

---------------------------------------------------------------------------
(* Properties of the Distribution Calculator (checked under DistSpec).     *)

\* the documents the page-annotated pattern recognises in the corpus
PageDocuments == RegexExecAll(pdfText, 1, FALSE)
LegacyDocuments == RegexExecAll(pdfText, 1, TRUE)

Distributed == distPc = "done" /\ Len(PageDocuments) >= 2

CountAt(i) == distribution[i].count
SumCounts(n) == SumSeq([i \in 1..n |-> CountAt(i)])

\* round(totalItems * pages_i / totalPages), halves up, in exact arithmetic
ExactShare(i) ==
    LET tp == TotalWeight(PageDocuments)
    IN ((2 * totalQuestions * PageDocuments[i].weight) + tp) \div (2 * tp)

\* C1: with two or more page-annotated documents the returned counts sum to
\* exactly the requested number of questions.
C1_SumIsTotal ==
    Distributed => SumCounts(Len(distribution)) = totalQuestions

C1_Witness ==
    /\ Distributed
    /\ Len(distribution) >= 3
    /\ totalQuestions >= Len(distribution)
    /\ \E i \in 1..(Len(distribution) - 1) : ExactShare(i) = 0 /\ CountAt(i) = 1
    /\ SumCounts(Len(distribution)) = totalQuestions

\* C2: with two or more documents every returned count is >= 0, the last
\* document's remainder included.
C2_CountsNonNegative ==
    Distributed => \A i \in 1..Len(distribution) : CountAt(i) >= 0

\* C3: one entry per document in corpus order; a non-last entry is
\* round(totalItems * pages_i / totalPages) with halves up, replaced by 1 only
\* when it is 0 and totalItems >= documentCount; the last entry is totalItems
\* minus the earlier entries.
C3_ProportionalShares ==
    (distPc = "done" /\ origin = "pdf" /\ Len(sourceDocs) >= 2) =>
        /\ Len(distribution) = Len(sourceDocs)
        /\ \A i \in 1..Len(sourceDocs) :
              /\ distribution[i].docName = sourceDocs[i].name
              /\ i < Len(sourceDocs) =>
                    CountAt(i) = IF ExactShare(i) = 0
                                    /\ totalQuestions >= Len(sourceDocs)
                                 THEN 1 ELSE ExactShare(i)
              /\ i = Len(sourceDocs) =>
                    CountAt(i) = totalQuestions - SumCounts(i - 1)

\* C4: when totalItems >= documentCount every non-last document receives at
\* least 1, and exactly 1 when its proportional share rounds to 0.
C4_MinimumOne ==
    (Distributed /\ totalQuestions >= Len(PageDocuments)) =>
        \A i \in 1..(Len(distribution) - 1) :
            /\ CountAt(i) >= 1
            /\ ExactShare(i) = 0 => CountAt(i) = 1

C4_Witness ==
    /\ Distributed
    /\ totalQuestions = Len(PageDocuments)
    /\ \E i \in 1..(Len(distribution) - 1) : ExactShare(i) = 0 /\ CountAt(i) = 1

\* C5: the result is empty, whatever the number of questions, when the
\* pattern that applies finds zero or one document: a corpus built from at
\* most one file, a legacy corpus of at most one document, or a text with no
\* complete pair of document delimiters.
C5_EmptyForFewDocuments ==
    (/\ distPc = "done"
     /\ \/ origin \in {"pdf", "legacy"} /\ Len(sourceDocs) <= 1
        \/ Len(PageDocuments) = 1
        \/ Len(PageDocuments) = 0 /\ Len(LegacyDocuments) <= 1)
    => distribution = <<>>

C5_Witness ==
    /\ distPc = "done"
    /\ totalQuestions >= 2
    /\ \/ origin = "pdf" /\ Len(sourceDocs) = 1
       \/ origin = "raw" /\ Len(pdfText) = MaxChunks
                         /\ \A k \in 1..Len(pdfText) : pdfText[k].kind = "text"
    /\ distribution = <<>>

\* round(totalItems * length_i / totalLength), halves up, in exact arithmetic
LegacyLength == SumSeq([i \in 1..Len(sourceDocs) |-> sourceDocs[i].length])

LegacyShare(i) ==
    ((2 * totalQuestions * sourceDocs[i].length) + LegacyLength)
        \div (2 * LegacyLength)

\* C20: the legacy pattern is tried only when the page-annotated pattern
\* matches no document; with two or more legacy documents the same rule
\* applies with the body length as the weight (a non-last entry is the
\* rounded share, 1 in place of 0 when totalItems >= documentCount, the last
\* entry is the remainder) and the counts sum to totalItems.
C20_LegacyDistribution ==
    /\ (distPc = "done" /\ origin = "mixed") => distribution = <<>>
    /\ (distPc = "done" /\ origin = "legacy" /\ Len(sourceDocs) >= 2) =>
          /\ Len(distribution) = Len(sourceDocs)
          /\ \A i \in 1..Len(sourceDocs) :
                /\ distribution[i].docName = sourceDocs[i].name
                /\ (i < Len(sourceDocs) /\ LegacyLength > 0) =>
                      CountAt(i) = IF LegacyShare(i) = 0
                                      /\ totalQuestions >= Len(sourceDocs)
                                   THEN 1 ELSE LegacyShare(i)
                /\ i = Len(sourceDocs) =>
                      CountAt(i) = totalQuestions - SumCounts(i - 1)
          /\ SumCounts(Len(distribution)) = totalQuestions

---------------------------------------------------------------------------
(* Properties of the source attribution (checked under LinkSpec).          *)

\* the attribution has the form '<name> (Pág. <n>)'
HasPageForm == sourceFile # Undefined /\ MatchSource(sourceFile) # Null

AttributedName == trim(MatchSource(sourceFile).filename)

UploadedKeys == IF uploadedFiles = Null THEN <<>> ELSE uploadedFiles.keys

ExactKeys == {i \in 1..Len(UploadedKeys) : UploadedKeys[i] = AttributedName}

BaseKeys ==
    {i \in 1..Len(UploadedKeys) : BaseName(UploadedKeys[i]) = BaseName(AttributedName)}

\* the file the attribution resolves to: the exact name, else the first file
\* with the same extension-stripped, lower-cased name
ResolvedKey ==
    IF ExactKeys # {} THEN AttributedName ELSE UploadedKeys[Min(BaseKeys)]

\* C19: in the three exam modes an attribution '<name> (Pág. <n>)' links to
\* the uploaded file of that exact name, else to the first uploaded file with
\* the same extension-stripped lower-cased name; with no such file, or
\* without that form, it is shown as plain text without a link.
C19_AttributionResolved ==
    link # Null =>
        IF HasPageForm /\ (ExactKeys # {} \/ BaseKeys # {})
        THEN /\ link.url # Null
             /\ link.url.file = ResolvedKey
             /\ link.url.page = MatchSource(sourceFile).pageNum
             /\ link.display = sourceFile
        ELSE link.url = Null

---------------------------------------------------------------------------
(* Properties of the card review (checked under ClozeSpec)                 *)

\* C25: a card is shown revealed only when the reveal button was pressed
\* while that card was current: no step ends with a card shown revealed
\* that was not the current card before the step.
C25_CardsEnterHidden ==
    [][(isRevealed' /\ clozeIndex' < Len(cards')) => clozeIndex' = clozeIndex]_vars

---------------------------------------------------------------------------
(* Properties of the summary of test mode (checked under TestSpec)         *)

\* the items submitted or timed out so far
ItemsDone == IF isAnswered THEN currentIndex + 1 ELSE currentIndex

---------------------------------------------------------------------------
(* Properties of the prompt (checked under DistSpec)                       *)

\* C30: every document the distribution instruction asks items of has its
\* start marker in the context of the same prompt.
C30_CountedDocumentsInContext ==
    LET items == calculateQuestionDistribution(pdfText, totalQuestions)
        starts == DocumentStarts(pdfText)
    IN \A n \in 1..Len(items) :
           items[n].count > 0 => starts[n] \in PromptContext(pdfText)

---------------------------------------------------------------------------
(* Properties of the selection of files (checked under UploadSpec)         *)

\* the documents of the corpus: its start markers
CorpusDocuments == {k \in 1..Len(pdfText) : pdfText[k].kind = "startP"}

\* the keys of the uploadedFiles map
UploadedNames == {uploadedFiles.keys[i] : i \in 1..Len(uploadedFiles.keys)}

\* C29: no two files of the selection have the same name, and once the
\* selection is processed the corpus has as many documents as the
\* uploadedFiles map has keys.
C29_NamesAreUnique ==
    /\ \A i, j \in 1..Len(fileSelection) :
           fileSelection[i].name = fileSelection[j].name => i = j
    /\ uploadedFiles # Null =>
           Cardinality(CorpusDocuments) = Cardinality(UploadedNames)

---------------------------------------------------------------------------
(* Properties of the countdown (checked under ExamSpec).                   *)

\* a timed-out record is appended to the summary
TestRecordsTimedOut ==
    /\ Len(summary') = Len(summary) + 1
    /\ summary'[Len(summary')].userSelected = <<"Tiempo agotado">>

OpenRecordsTimedOut ==
    /\ Len(openSummary') = Len(openSummary) + 1
    /\ openSummary'[Len(openSummary')].a = <<"(Tiempo agotado)">>

\* C22: a timed-out record is only ever appended for an item that is shown
\* and unanswered, with no evaluation of it under way; once the item is
\* answered, while its evaluation is awaited, and after the end of the exam
\* the countdown stands still, whatever the order of ticks, user actions and
\* evaluation responses.
C22_NoTimeoutOnceAnswered ==
    /\ [][TestRecordsTimedOut => (~isAnswered /\ ~isFinished)]_vars
    /\ [][OpenRecordsTimedOut =>
             /\ evaluation = Null /\ ~showModelAnswer
             /\ ~isEvaluating /\ ~openIsFinished]_vars
    /\ [][(isAnswered \/ isFinished) => timeLeft' >= timeLeft]_vars
    /\ [][(evaluation # Null \/ showModelAnswer \/ isEvaluating \/ openIsFinished) =>
             openTimeLeft' >= openTimeLeft]_vars

\* an evaluation is awaited with one second left on the countdown
C22_Witness ==
    /\ isEvaluating
    /\ openSettings.timeLimit = MaxTime
    /\ openTimeLeft = 1
    /\ openIndex = 1
    /\ Len(openSummary) = 1
    /\ openSummary[1].a = <<"(Tiempo agotado)">>

\* the step records a timed-out outcome, in test mode and in open mode
TestTimeoutStep ==
    /\ Len(summary') = Len(summary) + 1
    /\ summary'[Len(summary')].userSelected = TimedOut

OpenTimeoutStep ==
    /\ Len(openSummary') = Len(openSummary) + 1
    /\ openSummary'[Len(openSummary')].a = OpenTimedOut

\* the countdown of test mode, step by step, under a time limit
TestCountdownStep ==
    settings.timeLimit >= 1 =>
        /\ (currentIndex' # currentIndex /\ currentIndex' < Len(questions))
               => timeLeft' = settings.timeLimit
        /\ (currentIndex' = currentIndex /\ ~isAnswered' /\ currentIndex < Len(questions))
               => (timeLeft' \in {timeLeft, timeLeft - 1} /\ timeLeft' >= 1)
        /\ timeLeft' = timeLeft - 1 => TimerRunning
        /\ TestTimeoutStep => timeLeft = 1

\* the countdown of open mode, step by step, under a time limit
OpenCountdownStep ==
    openSettings.timeLimit >= 1 =>
        /\ (openIndex' # openIndex /\ openIndex' < Len(openQuestions))
               => openTimeLeft' = openSettings.timeLimit
        /\ (openIndex' = openIndex /\ openIndex < Len(openQuestions)
               /\ evaluation' = Null /\ ~showModelAnswer' /\ ~isEvaluating')
               => (openTimeLeft' \in {openTimeLeft, openTimeLeft - 1} /\ openTimeLeft' >= 1)
        /\ openTimeLeft' = openTimeLeft - 1 => OpenTimerRunning
        /\ OpenTimeoutStep => openTimeLeft = 1

\* C27: under a time limit T >= 1 the countdown of an item starts at T when
\* the item becomes current, goes down by one with each tick while the item
\* is unanswered and by nothing else, and the timed-out outcome is recorded
\* by the tick taken with one second left, which is the T-th tick.
C27_CountdownPerItem ==
    /\ [](TimerRunning => timeLeft \in 1..settings.timeLimit)
    /\ [](OpenTimerRunning => openTimeLeft \in 1..openSettings.timeLimit)
    /\ [][TestCountdownStep /\ OpenCountdownStep]_vars

\* the second item on its last second, the first one having timed out
C27_Witness ==
    /\ currentIndex = 1
    /\ summary[1].userSelected = TimedOut
    /\ TimerRunning
    /\ timeLeft = 1
    /\ settings.timeLimit > 1

---------------------------------------------------------------------------
(* Properties of a failed evaluation (checked under OpenSpec).             *)

\* the fallback evaluation is shown for the item
FallbackShown == evaluation # Null /\ evaluation.feedback = "Error al evaluar con IA."

\* C23: when the evaluation call fails, the item shown becomes answered
\* with the fallback evaluation of score 0, totalScore stays as it is and
\* isEvaluating is false again; from there on the next button works.
C23_FailedEvaluationFallsBack ==
    /\ [][handleCheckError =>
             /\ ~openIsFinished
             /\ openIndex' = openIndex
             /\ evaluation' # Null
             /\ evaluation'.score = 0
             /\ totalScore' = totalScore
             /\ ~isEvaluating']_vars
    /\ [](FallbackShown => ~isEvaluating)
    /\ []((FallbackShown /\ ~openIsFinished) => ENABLED OpenHandleNext)

\* the second item's evaluation failed after the first one was found right
C23_Witness ==
    /\ FallbackShown
    /\ ~openIsFinished
    /\ openIndex = 1
    /\ totalScore = 1
    /\ ~isEvaluating

---------------------------------------------------------------------------
(* Properties of the application steps (checked under AppSpec).            *)

\* a generation call started by handleStartExam fails: a pending request is
\* rejected, or the credential is missing when the exam is started
GenerationFailed ==
    \/ \E i \in 1..Len(generations) : GenerationFails(i)
    \/ ~apiKey /\ \E newSettings \in AppSettingsRecords : handleStartExam(newSettings)

\* C16: a failed generation call shows the alert and sets the step to
\* SETTINGS with the item lists as they were; it never sets the step to EXAM,
\* and without a credential no request is made at all.
C16_FailedGenerationToSettings ==
    /\ [](~apiKey => (generations = <<>> /\ step # "EXAM"))
    /\ [][GenerationFailed =>
             /\ alert' = "Error al generar el examen."
             /\ step' = "SETTINGS"
             /\ UNCHANGED <<testQuestions, clozeCards, stateOpenQuestions>>]_vars

C16_Witness ==
    /\ apiKey
    /\ alert = "Error al generar el examen."
    /\ step = "SETTINGS"
    /\ testQuestions # <<>>
    /\ stateOpenQuestions # <<>>
    /\ generations # <<>>

ImageOnlyFiles(files) == \A i \in 1..Len(files) : files[i].pageLen = 0

\* C17: when the selected PDFs hold no page text, processFiles tells the user
\* and does not call onTextExtracted: the step stays UPLOAD, and the corpus
\* and the uploaded files of the application stay as they were.
C17_ImageOnlyRejected ==
    [][\A files \in SelectedFiles :
          (ImageOnlyFiles(files) /\ processFiles(files, TRUE)) =>
              /\ alert' = "No se pudo extraer texto."
              /\ step' = "UPLOAD"
              /\ UNCHANGED <<pdfText, uploadedFiles>>]_vars

\* an exam component is mounted by the step
ExamMounts ==
    ExamMode(step, appSettings) = "none" /\ ExamMode(step', appSettings') # "none"

\* C18: handleRestart sets the step to SETTINGS, empties the three item
\* lists and discards the session of the exam (an exam mounted later starts
\* at item 0 with score 0 and an empty summary); the corpus, the uploaded
\* files and the background image stay as they were.
C18_RestartClearsItemsOnly ==
    /\ [][handleRestart =>
             /\ step' = "SETTINGS"
             /\ testQuestions' = <<>>
             /\ clozeCards' = <<>>
             /\ stateOpenQuestions' = <<>>
             /\ UNCHANGED <<pdfText, uploadedFiles, backgroundImage>>]_vars
    /\ [][(handleRestart \/ ExamMounts) =>
             /\ currentIndex' = 0 /\ score' = 0 /\ summary' = <<>>
             /\ results' = [correct |-> 0, wrong |-> 0]
             /\ selectedOptions' = <<>> /\ isAnswered' = FALSE
             /\ openIndex' = 0 /\ totalScore' = 0 /\ openSummary' = <<>>
             /\ evaluation' = Null /\ showModelAnswer' = FALSE]_vars

\* the restart button is shown after an exam that left something to discard
C18_Witness ==
    /\ RestartShown
    /\ appSettings.type = "OPEN_FLASHCARD"
    /\ totalScore = 1
    /\ openSummary # <<>>
    /\ testQuestions # <<>>
    /\ stateOpenQuestions # <<>>
    /\ backgroundImage # Null
    /\ pdfText # <<>>

\* C24: at most one generation request is awaiting its response at any
\* time: no sequence of user actions starts a second one while the first is
\* pending.
C24_OneGenerationInFlight == Len(generations) <= 1

\* the response of a pending generation request arrives
GenerationResponse ==
    \/ \E i \in 1..Len(generations) : GenerationFails(i)
    \/ \E i \in 1..Len(generations) :
          \E items \in GeneratedItems(generations[i].type) : GenerationSucceeds(i, items)

\* C28: the step becomes EXAM only from LOADING, and a generation response
\* that arrives when the step is no longer LOADING changes neither the step
\* nor the item lists.
C28_ExamOnlyFromLoading ==
    /\ [][(step # "EXAM" /\ step' = "EXAM") => step = "LOADING"]_vars
    /\ [][(GenerationResponse /\ step # "LOADING") =>
             UNCHANGED <<step, testQuestions, clozeCards, stateOpenQuestions>>]_vars

---------------------------------------------------------------------------
(* Properties of the Span Segmenter (checked under SegSpec).               *)

Rendered == segPc = "done"

RECURSIVE ConcatTexts(_)
ConcatTexts(ps) == IF ps = <<>> THEN <<>> ELSE Head(ps).text \o ConcatTexts(Tail(ps))

\* the number of characters before the i-th part
OffsetOf(i) == Len(ConcatTexts(SubSeq(parts, 1, i - 1)))

IsBlank(word) == trim(word) = <<>>

\* str contains sub, compared after toLowerCase
ContainsIgnoringCase(str, sub) ==
    \E q \in 0..(Len(str) - Len(sub)) :
        toLowerCase(SubSeq(str, q + 1, q + Len(sub))) = toLowerCase(sub)

RECURSIVE WithoutBlanks(_)
WithoutBlanks(words) ==
    IF words = <<>> THEN <<>>
    ELSE (IF IsBlank(Head(words)) THEN <<>> ELSE <<Head(words)>>)
         \o WithoutBlanks(Tail(words))

HiddenParts == {i \in 1..Len(parts) : parts[i].hidden}

\* C6: the texts of the segments getParsedContent returns, concatenated in
\* order, are the card's fullText, whatever the casing of the hidden words.
C6_ConcatenationIsFullText ==
    Rendered => ConcatTexts(parts) = currentCard.fullText

\* a word written in another casing than the text hid a stretch in the
\* middle of it
C6_Witness ==
    /\ Rendered
    /\ Len(parts) = 3
    /\ parts[2].hidden
    /\ \A k \in 1..Len(currentCard.hiddenWords) :
           currentCard.hiddenWords[k] # parts[2].text

\* the segments before the k-th hidden word is processed
PartsBefore(k) ==
    PartsAfter(<<VisiblePart(currentCard.fullText)>>,
               SubSeq(currentCard.hiddenWords, 1, k - 1), 1)

\* the text of each stretch of adjacent visible segments
VisibleRuns(ps) ==
    {ConcatTexts(SubSeq(ps, a, b)) :
        <<a, b>> \in {r \in (1..Len(ps)) \X (1..Len(ps)) :
                         r[1] <= r[2] /\ \A m \in r[1]..r[2] : ~ps[m].hidden}}

\* C7: when a non-blank word is processed, each of its occurrences (letter
\* case ignored, metacharacters literal) in a visible segment becomes a
\* hidden segment, so what stays visible of that segment does not contain
\* the word.
C7_OccurrencesHidden ==
    Rendered =>
        \A k \in 1..Len(currentCard.hiddenWords) :
            ~IsBlank(currentCard.hiddenWords[k]) =>
                \A i \in 1..Len(PartsBefore(k)) :
                    ~PartsBefore(k)[i].hidden =>
                        \A run \in VisibleRuns(PartsForWord(<<PartsBefore(k)[i]>>,
                                                            currentCard.hiddenWords[k])) :
                            ~ContainsIgnoringCase(run, trim(currentCard.hiddenWords[k]))

\* C8: an empty or blank hidden word changes nothing: the segments are those
\* of the card without its blank words, and none of them is an empty hidden
\* segment.
C8_BlankWordsIgnored ==
    Rendered =>
        parts = getParsedContent([fullText |-> currentCard.fullText,
                                  hiddenWords |-> WithoutBlanks(currentCard.hiddenWords)])

---------------------------------------------------------------------------
(* Properties of the exam session of test mode (checked under TestSpec).   *)

\* the step in which the item shown becomes answered: handleSubmit
SubmitStep == ~isAnswered /\ isAnswered'

SelectionIsExact == SetOf(selectedOptions) = SetOf(currentQuestion.correctIndices)

\* C10: handleSubmit records the answer as correct exactly when the set of
\* the selected indices is the set of the item's correctIndices, whatever
\* their order; a correct answer adds 1 to the score, an incorrect one 0, or
\* -0.5 under negative marking (the score counts half points).
C10_SubmitScoresExactSelection ==
    [][SubmitStep =>
          /\ Len(summary') = Len(summary) + 1
          /\ summary'[Len(summary')].isCorrect = SelectionIsExact
          /\ score' = score + (IF SelectionIsExact THEN 2
                               ELSE IF settings.negativeMarking THEN 0 - 1
                               ELSE 0)]_vars

\* under negative marking, a selection with every correct index and one more
\* was submitted and cost half a point
C10_Witness ==
    /\ isAnswered
    /\ ~isFinished
    /\ settings.negativeMarking
    /\ SetOf(currentQuestion.correctIndices) # SetOf(selectedOptions)
    /\ SetOf(currentQuestion.correctIndices) \subseteq SetOf(selectedOptions)
    /\ SetOf(currentQuestion.correctIndices) # {}
    /\ summary # <<>>
    /\ ~summary[Len(summary)].isCorrect
    /\ score = 0 - 1

\* the hidden segments of a list of segments, each with the number of
\* characters before it
SpansOf(ps) ==
    {<<Len(ConcatTexts(SubSeq(ps, 1, i - 1))), ps[i]>> :
        i \in {j \in 1..Len(ps) : ps[j].hidden}}

\* the k-th word occurs, letter case ignored, in a segment still visible
\* when it is processed
OccursInVisible(k) ==
    \E i \in 1..Len(PartsBefore(k)) :
        /\ ~PartsBefore(k)[i].hidden
        /\ ContainsIgnoringCase(PartsBefore(k)[i].text, trim(currentCard.hiddenWords[k]))

\* C21: the words are applied in their order and a segment, once hidden,
\* stays as it is: each later word leaves the hidden segments in place with
\* their text, and a word that occurs only inside, over the edge of, or
\* across hidden segments adds no hidden segment.
C21_HiddenSegmentsStay ==
    Rendered =>
        /\ parts = PartsBefore(Len(currentCard.hiddenWords) + 1)
        /\ \A k \in 1..Len(currentCard.hiddenWords) :
              /\ SpansOf(PartsBefore(k)) \subseteq SpansOf(PartsBefore(k + 1))
              /\ SpansOf(PartsBefore(k)) \subseteq SpansOf(parts)
              /\ (~IsBlank(currentCard.hiddenWords[k]) /\ ~OccursInVisible(k)) =>
                    SpansOf(PartsBefore(k + 1)) = SpansOf(PartsBefore(k))

\* the second word occurs in the text, but only across the edge of what the
\* first word hid
C21_Witness ==
    /\ Rendered
    /\ Len(currentCard.hiddenWords) = 2
    /\ Len(currentCard.hiddenWords[2]) = 2
    /\ ~IsBlank(currentCard.hiddenWords[2])
    /\ ContainsIgnoringCase(currentCard.fullText, currentCard.hiddenWords[2])
    /\ ~OccursInVisible(2)
    /\ Len(parts) = 3
    /\ HiddenParts = {2}
    /\ SpansOf(parts) = SpansOf(PartsBefore(2))

---------------------------------------------------------------------------
(* Properties of the exam sessions (checked under ExamSpec).               *)

\* num / den rounded to the nearest integer, halves up, for num >= 0, den > 0
RoundHalfUp(num, den) == ((2 * num) + den) \div (2 * den)

ClampedScore == IF score < 0 THEN 0 ELSE score

\* C11: with at least one item, the grade of a finished test exam is
\* round(max(0, score) / itemCount * 10) (score in half points here), that of
\* a finished open exam round(totalScore / itemCount * 10); both are integers
\* from 0 to 10, and the exam is passed exactly from 5 on.
C11_GradeOutOfTen ==
    /\ (isFinished /\ Len(questions) >= 1) =>
           /\ grade = RoundHalfUp(ClampedScore * 10, 2 * Len(questions))
           /\ grade \in 0..10
           /\ isPass <=> RoundHalfUp(ClampedScore * 10, 2 * Len(questions)) >= 5
    /\ (openIsFinished /\ Len(openQuestions) >= 1) =>
           /\ openGrade = RoundHalfUp(totalScore * 10, Len(openQuestions))
           /\ openGrade \in 0..10
           /\ openIsPass <=> RoundHalfUp(totalScore * 10, Len(openQuestions)) >= 5

\* a test exam finished below zero under negative marking
C11_Witness ==
    /\ isFinished
    /\ Len(questions) >= 1
    /\ settings.negativeMarking
    /\ score < 0
    /\ grade = 0

\* the session leaves the item shown though it is unanswered
TestLeavesUnanswered ==
    /\ ~isFinished
    /\ ~isAnswered
    /\ currentIndex' # currentIndex \/ (Len(summary') # Len(summary) /\ ~isAnswered')

OpenLeavesUnanswered ==
    /\ OpenUnanswered
    /\ \/ openIndex' # openIndex
       \/ (Len(openSummary') # Len(openSummary) /\ ~showModelAnswer' /\ ~isEvaluating')

\* what a timeout does in test mode
TestTimeoutOutcome ==
    /\ Len(summary') = Len(summary) + 1
    /\ SubSeq(summary', 1, Len(summary)) = summary
    /\ summary'[Len(summary')].question = currentIndex
    /\ summary'[Len(summary')].userSelected = <<"Tiempo agotado">>
    /\ ~summary'[Len(summary')].isCorrect
    /\ score' = score
    /\ currentIndex' = currentIndex + 1
    /\ IF currentIndex + 1 < Len(questions)
       THEN ~isAnswered' /\ selectedOptions' = <<>>
       ELSE currentIndex' >= Len(questions)

\* what a timeout does in open mode
OpenTimeoutOutcome ==
    /\ Len(openSummary') = Len(openSummary) + 1
    /\ SubSeq(openSummary', 1, Len(openSummary)) = openSummary
    /\ openSummary'[Len(openSummary')].q = openCurrentQuestion.question
    /\ openSummary'[Len(openSummary')].a = <<"(Tiempo agotado)">>
    /\ openSummary'[Len(openSummary')].score = 0
    /\ totalScore' = totalScore
    /\ openIndex' = openIndex + 1
    /\ IF openIndex + 1 < Len(openQuestions)
       THEN /\ userAnswer' = <<>>
            /\ evaluation' = Null
            /\ ~showModelAnswer'
            /\ ~isEvaluating'
       ELSE openIndex' >= Len(openQuestions)

\* C12: with a time limit, a countdown that runs out on an unanswered item
\* (the only way the session leaves such an item, so the countdown never
\* stays at zero on one) appends exactly one record for the item, with the
\* timed-out marker and no credit, leaves the score as it is, and moves to
\* the next item, unanswered and with empty input, or to the end.
C12_TimeoutRecordsAndAdvances ==
    /\ [](TimerRunning => timeLeft >= 1)
    /\ [](OpenTimerRunning => openTimeLeft >= 1)
    /\ [][TestLeavesUnanswered =>
             (TimerRunning /\ timeLeft <= 1 /\ TestTimeoutOutcome)]_vars
    /\ [][OpenLeavesUnanswered =>
             (OpenTimerRunning /\ openTimeLeft <= 1 /\ OpenTimeoutOutcome)]_vars

\* under negative marking, the first item timed out with an option
\* selected or not, and the second item is up, unanswered
C12_Witness ==
    /\ settings.negativeMarking
    /\ currentIndex = 1
    /\ ~isFinished
    /\ Len(summary) = 1
    /\ summary[1].userSelected = <<"Tiempo agotado">>
    /\ score = 0
    /\ selectedOptions = <<>>
    /\ timeLeft = settings.timeLimit

\* C13: with timeLimit = 0 no countdown runs (timeLeft stays 0) and no
\* record of the summary is a timed-out one, whatever was done so far.
C13_NoLimitNoTimeout ==
    /\ settings.timeLimit = 0 =>
           /\ timeLeft = 0
           /\ \A k \in 1..Len(summary) : summary[k].userSelected # <<"Tiempo agotado">>
    /\ openSettings.timeLimit = 0 =>
           /\ openTimeLeft = 0
           /\ \A k \in 1..Len(openSummary) : openSummary[k].a # <<"(Tiempo agotado)">>

\* a test exam of two items without time limit was left waiting on its
\* first item and then done to the end
C13_Witness ==
    /\ settings.timeLimit = 0
    /\ Len(questions) = 2
    /\ isFinished
    /\ Len(summary) = 2

\* the open item shown has been checked
OpenAnswered == ~openIsFinished /\ (evaluation # Null \/ showModelAnswer)

\* C14: each check of an open item, whether the answer is empty, evaluated
\* or its evaluation fails, leaves the item answered with one record more in
\* the summary, so that the summary of a finished exam has one record per
\* item.
C14_OneRecordPerItem ==
    /\ OpenAnswered => Len(openSummary) = openIndex + 1
    /\ openIsFinished => Len(openSummary) = Len(openQuestions)

\* C15: each evaluation request sent carries the question, the model answer,
\* the user's answer and the benevolence level of the settings.
C15_RequestCarriesBenevolence ==
    \A k \in 1..Len(evalRequests) :
        /\ evalRequests[k].benevolence = openSettings.benevolence
        /\ evalRequests[k].question = openQuestions[evalRequests[k].question].question
        /\ evalRequests[k].modelAnswer = openQuestions[evalRequests[k].question].modelAnswer
        /\ trim(evalRequests[k].userAnswer) # <<>>

===========================================================================
